---- MODULE Spec2Model ----
(***************************************************************************)
(* A model of client/cros/dhcp_packet.py: the DHCP packet codec            *)
(* (DhcpPacket, its field and option catalogs, to_binary_string and the    *)
(* decoding constructor).                                                  *)
(*                                                                         *)
(* Representation of Python values.                                        *)
(*   None                      [t |-> "None"]                              *)
(*   an int n                  [t |-> "int", hi, lo], n = hi * 65536 + lo, *)
(*                             0 <= lo < 65536 (two limbs: the 32-bit      *)
(*                             values of the wire format do not fit the    *)
(*                             checker's machine integers)                 *)
(*   a byte string             [t |-> "str", v |-> <<b1, ..., bn>>]        *)
(*   a numeric dotted address  [t |-> "ip", v |-> <<p1, ..., pk>>], the    *)
(*                             text "p1.p2. ... .pk" as inet_aton reads it *)
(*   a list of addresses       [t |-> "iplist", v |-> << <<..>>, ... >>]   *)
(*   a list of ints            [t |-> "bytelist", v |-> <<n1, ..., nk>>]   *)
(* A byte buffer is a sequence of numbers 0..255; Python's 0-based offset  *)
(* k is the sequence's index k + 1.                                        *)
(***************************************************************************)
EXTENDS Integers, Sequences, FiniteSets, TLC

\* The state: one packet under construction (_fields, _options), what its last
\* to_binary_string call returned (ret), the buffer handed to the decoding
\* constructor (wire) and the packet it built (rx).

VARIABLES
    _fields,    \* the packet's field dictionary
    _options,   \* the packet's option dictionary
    setOrder,   \* history: the options in the order of their last set_option
    nsets,      \* the set_field and set_option calls since construction
    op,         \* the operation that ran last
    ret,        \* what the last to_binary_string call returned
    wire,       \* the buffer given to DhcpPacket(byte_str)
    parts,      \* history: the pieces wire's options region was built of
    rx,         \* the packet DhcpPacket(wire) built
    args,       \* history: the call that constructed the packet, its arguments
    touched     \* history: the fields and options set since the construction

\* The state of a lookup in the option catalog.
VARIABLES
    queried,    \* the number get_dhcp_option_by_number was called with
    found       \* what the call returned

\* The state of two packets side by side: the dictionaries live in a heap, and
\* an instance holds the addresses of its two dictionaries.
VARIABLES
    heap,       \* the dictionaries, by address
    inst,       \* per name: the instance bound to it, as [f, o] addresses
    call,       \* the last call: on which name, what, with which arguments
    prev,       \* history: the call before it
    before,     \* history: heap and inst as they were before the last call
    result,     \* what the last call returned
    ncalls,     \* the calls made so far
    globals     \* the module's DHCP_PACKET_FIELDS and DHCP_PACKET_OPTIONS lists

\* The state of one call run turn by turn: the decoding constructor's while
\* loop, or to_binary_string's loops.
VARIABLES
    pc,             \* where the call stands
    cur_byte_str,   \* the constructor's byte_str
    cur_packet,     \* self: its fields and options
    cur_offset,     \* the local offset
    cur_data,       \* to_binary_string's data, joined
    cur_field,      \* the index of the field the field loop is at
    nturns          \* the turns of while loops taken so far

single == <<_fields, _options, setOrder, nsets, op, ret, wire, parts, rx, args, touched>>
lookup == <<queried, found>>
pair == <<heap, inst, call, prev, before, result, ncalls, globals>>
loop == <<pc, cur_byte_str, cur_packet, cur_offset, cur_data, cur_field, nturns>>
vars == <<_fields, _options, setOrder, nsets, op, ret, wire, parts, rx, args, touched, lookup, pair, loop>>

NoneV == [t |-> "None"]
PyInt(hi, lo) == [t |-> "int", hi |-> hi, lo |-> lo]
Num(n) == PyInt(0, n)
Str(bytes) == [t |-> "str", v |-> bytes]
Ip(p) == [t |-> "ip", v |-> p]
IpList(addrs) == [t |-> "iplist", v |-> addrs]
ByteList(ns) == [t |-> "bytelist", v |-> ns]

Min(a, b) == IF a < b THEN a ELSE b
Max(a, b) == IF a < b THEN b ELSE a
Zeros(n) == [i \in 1..n |-> 0]

\* s[a:b] of Python for 0 <= a <= b: the slice stops at the end of s.
Slice(s, a, b) == SubSeq(s, a + 1, Min(b, Len(s)))

\* The outcome of a pack or unpack: the value, or the exception it raised.
Ok(x) == [ok |-> TRUE, v |-> x]
Raised == [ok |-> FALSE, v |-> <<>>]

----------------------------------------------------------------------------
\* struct.pack / struct.unpack with the formats "!B", "!H", "!I", "!16s".

IsInt(value) == value.t = "int"

\* Faulty variant: the bytes of the integer in little-endian order.
struct_pack_uint_le(width, value) ==
    IF ~IsInt(value) THEN Raised
    ELSE CASE width = 1 ->
                IF value.hi = 0 /\ value.lo <= 255
                THEN Ok(<<value.lo>>) ELSE Raised
           [] width = 2 ->
                IF value.hi = 0
                THEN Ok(<<value.lo % 256, value.lo \div 256>>) ELSE Raised
           [] OTHER ->
                IF value.hi >= 0 /\ value.hi <= 65535
                THEN Ok(<<value.lo % 256, value.lo \div 256,
                          value.hi % 256, value.hi \div 256>>)
                ELSE Raised

\* Faulty variant: a value outside the range is packed modulo 2^(8*width).
struct_pack_uint_wrap(width, value) ==
    IF ~IsInt(value) THEN Raised
    ELSE CASE width = 1 -> Ok(<<value.lo % 256>>)
           [] width = 2 -> Ok(<<value.lo \div 256, value.lo % 256>>)
           [] OTHER -> Ok(<<(value.hi % 65536) \div 256, value.hi % 256,
                            value.lo \div 256, value.lo % 256>>)

\* struct.pack of an unsigned integer of `width` bytes, big-endian; struct.error
\* when the value is no integer or is outside 0 .. 2^(8*width) - 1.
struct_pack_uint(width, value) ==
    IF ~IsInt(value) THEN Raised
    ELSE CASE width = 1 ->
                IF value.hi = 0 /\ value.lo <= 255
                THEN Ok(<<value.lo>>) ELSE Raised
           [] width = 2 ->
                IF value.hi = 0
                THEN Ok(<<value.lo \div 256, value.lo % 256>>) ELSE Raised
           [] OTHER ->
                IF value.hi >= 0 /\ value.hi <= 65535
                THEN Ok(<<value.hi \div 256, value.hi % 256,
                          value.lo \div 256, value.lo % 256>>)
                ELSE Raised

\* Faulty variant: the bytes read in little-endian order.
struct_unpack_uint_le(width, byte_string) ==
    IF Len(byte_string) # width THEN Raised
    ELSE CASE width = 1 -> Ok(PyInt(0, byte_string[1]))
           [] width = 2 -> Ok(PyInt(0, byte_string[2] * 256 + byte_string[1]))
           [] OTHER -> Ok(PyInt(byte_string[4] * 256 + byte_string[3],
                              byte_string[2] * 256 + byte_string[1]))

\* struct.unpack of the same formats; struct.error unless exactly `width` bytes.
struct_unpack_uint(width, byte_string) ==
    IF Len(byte_string) # width THEN Raised
    ELSE CASE width = 1 -> Ok(PyInt(0, byte_string[1]))
           [] width = 2 -> Ok(PyInt(0, byte_string[1] * 256 + byte_string[2]))
           [] OTHER -> Ok(PyInt(byte_string[1] * 256 + byte_string[2],
                              byte_string[3] * 256 + byte_string[4]))

\* Faulty variant: "!16s" without the padding to 16 bytes.
struct_pack_16s_nopad(value) ==
    IF value.t # "str" THEN Raised
    ELSE Ok(SubSeq(value.v, 1, Min(16, Len(value.v))))

\* struct.pack("!16s", value): the string cut to 16 bytes or right-padded with
\* zero bytes to 16 bytes.
struct_pack_16s(value) ==
    IF value.t # "str" THEN Raised
    ELSE Ok(SubSeq(value.v, 1, Min(16, Len(value.v)))
            \o Zeros(16 - Min(16, Len(value.v))))

\* struct.unpack("!16s", bytes): the 16 bytes as they are.
struct_unpack_16s(byte_string) ==
    IF Len(byte_string) # 16 THEN Raised ELSE Ok(Str(byte_string))

\* socket.inet_aton: four parts are four bytes; with fewer parts the last one
\* fills the remaining bytes; socket.error for anything else.
inet_aton_parts(p) ==
    CASE Len(p) = 4 ->
            IF \A i \in 1..4 : p[i] >= 0 /\ p[i] <= 255 THEN Ok(p) ELSE Raised
      [] Len(p) = 3 ->
            IF p[1] >= 0 /\ p[1] <= 255 /\ p[2] >= 0 /\ p[2] <= 255
               /\ p[3] >= 0 /\ p[3] <= 65535
            THEN Ok(<<p[1], p[2], p[3] \div 256, p[3] % 256>>) ELSE Raised
      [] Len(p) = 2 ->
            IF p[1] >= 0 /\ p[1] <= 255 /\ p[2] >= 0 /\ p[2] <= 16777215
            THEN Ok(<<p[1], p[2] \div 65536, (p[2] \div 256) % 256, p[2] % 256>>)
            ELSE Raised
      [] Len(p) = 1 ->
            IF p[1] >= 0
            THEN Ok(<<p[1] \div 16777216, (p[1] \div 65536) % 256,
                      (p[1] \div 256) % 256, p[1] % 256>>)
            ELSE Raised
      [] OTHER -> Raised

inet_aton(value) == IF value.t # "ip" THEN Raised ELSE inet_aton_parts(value.v)

\* Faulty variant: the four bytes are read in host order, last byte first.
inet_ntoa_reversed(byte_string) ==
    IF Len(byte_string) # 4 THEN Raised
    ELSE Ok(Ip(<<byte_string[4], byte_string[3], byte_string[2], byte_string[1]>>))

\* socket.inet_ntoa: the four-part dotted text of exactly four bytes.
inet_ntoa(byte_string) ==
    IF Len(byte_string) # 4 THEN Raised ELSE Ok(Ip(byte_string))

----------------------------------------------------------------------------
\* The pack and unpack of each kind of Option and Field.

\* "".join([socket.inet_aton(addr) for addr in value]) from the i-th address on.
JoinAddrs(addrs, i) ==
    LET packed == [k \in 1..Len(addrs) |-> inet_aton_parts(addrs[k])]
        n == Len(addrs) - i + 1
    IN IF \E k \in i..Len(addrs) : ~packed[k].ok THEN Raised
       ELSE Ok([j \in 1..(4 * n) |->
                   packed[i + (j - 1) \div 4].v[((j - 1) % 4) + 1]])

IpListOption_pack(value) ==
    IF value.t # "iplist" THEN Raised ELSE JoinAddrs(value.v, 1)

\* Faulty variant: only the first 4-byte chunk is read.
IpListOption_unpack_firstOnly(byte_string) ==
    IF Len(byte_string) % 4 # 0 THEN Raised
    ELSE Ok(IpList([k \in 1..Min(1, Len(byte_string) \div 4) |->
                       SubSeq(byte_string, 4 * k - 3, 4 * k)]))

\* One address per 4-byte chunk; the last chunk may be short, and inet_ntoa
\* raises on it.
IpListOption_unpack(byte_string) ==
    IF Len(byte_string) % 4 # 0 THEN Raised
    ELSE Ok(IpList([k \in 1..(Len(byte_string) \div 4) |->
                       SubSeq(byte_string, 4 * k - 3, 4 * k)]))

\* "".join(chr(v) for v in value): chr raises outside 0..255.
ByteListOption_pack(value) ==
    IF value.t # "bytelist" THEN Raised
    ELSE IF \A i \in 1..Len(value.v) : value.v[i] >= 0 /\ value.v[i] <= 255
         THEN Ok(value.v) ELSE Raised

ByteListOption_unpack(byte_string) == Ok(ByteList(byte_string))

\* RawOption: the byte string as it is.
RawOption_pack(value) == IF value.t # "str" THEN Raised ELSE Ok(value.v)

RawOption_unpack(byte_string) == Ok(Str(byte_string))

\* piece.pack(value), by the kind of the piece.
pack(kind, value) ==
    CASE kind = "B" -> struct_pack_uint(1, value)
      [] kind = "H" -> struct_pack_uint(2, value)
      [] kind = "I" -> struct_pack_uint(4, value)
      [] kind = "16s" -> struct_pack_16s(value)
      [] kind = "ip" -> inet_aton(value)
      [] kind = "iplist" -> IpListOption_pack(value)
      [] kind = "raw" -> RawOption_pack(value)
      [] OTHER -> ByteListOption_pack(value)

\* piece.unpack(byte_string), by the kind of the piece.
unpack(kind, byte_string) ==
    CASE kind = "B" -> struct_unpack_uint(1, byte_string)
      [] kind = "H" -> struct_unpack_uint(2, byte_string)
      [] kind = "I" -> struct_unpack_uint(4, byte_string)
      [] kind = "16s" -> struct_unpack_16s(byte_string)
      [] kind = "ip" -> inet_ntoa(byte_string)
      [] kind = "iplist" -> IpListOption_unpack(byte_string)
      [] kind = "raw" -> RawOption_unpack(byte_string)
      [] OTHER -> ByteListOption_unpack(byte_string)

----------------------------------------------------------------------------
\* The catalogs.

Field(name, offset, size, kind) ==
    [name |-> name, offset |-> offset, size |-> size, kind |-> kind]

Option(name, number, kind) == [name |-> name, number |-> number, kind |-> kind]

DHCP_MIN_PACKET_SIZE == 300

OPTIONS_START_OFFSET == 240

OPTION_PAD == 0

OPTION_END == 255

IPV4_NULL_ADDRESS == Ip(<<0, 0, 0, 0>>)

FIELD_VALUE_MAGIC_COOKIE == PyInt(25474, 21347)   \* 0x63825363

OPTION_VALUE_DHCP_MESSAGE_TYPE_UNKNOWN == PyInt(-1, 65535)   \* -1

DHCP_PACKET_FIELDS ==
    << Field("op", 0, 1, "B"),
       Field("htype", 1, 1, "B"),
       Field("hlen", 2, 1, "B"),
       Field("hops", 3, 1, "B"),
       Field("xid", 4, 4, "I"),
       Field("secs", 8, 2, "H"),
       Field("flags", 10, 2, "H"),
       Field("ciaddr", 12, 4, "ip"),
       Field("yiaddr", 16, 4, "ip"),
       Field("siaddr", 20, 4, "ip"),
       Field("giaddr", 24, 4, "ip"),
       Field("chaddr", 28, 16, "16s"),
       Field("magic_cookie", 236, 4, "I") >>

DHCP_PACKET_OPTIONS ==
    << Option("time_offset", 2, "I"),
       Option("routers", 3, "iplist"),
       Option("subnet_mask", 1, "ip"),
       Option("time_servers", 4, "iplist"),
       Option("name_servers", 5, "iplist"),
       Option("dns_servers", 6, "iplist"),
       Option("log_servers", 7, "iplist"),
       Option("cookie_servers", 8, "iplist"),
       Option("lpr_servers", 9, "iplist"),
       Option("impress_servers", 10, "iplist"),
       Option("resource_loc_servers", 11, "iplist"),
       Option("host_name", 12, "raw"),
       Option("boot_file_size", 13, "H"),
       Option("merit_dump_file", 14, "raw"),
       Option("swap_server", 16, "ip"),
       Option("domain_name", 15, "raw"),
       Option("root_path", 17, "raw"),
       Option("extensions", 18, "raw"),
       Option("requested_ip", 50, "ip"),
       Option("ip_lease_time", 51, "I"),
       Option("option_overload", 52, "B"),
       Option("dhcp_message_type", 53, "B"),
       Option("server_id", 54, "ip"),
       Option("parameter_request_list", 55, "bytelist"),
       Option("message", 56, "raw"),
       Option("max_dhcp_message_size", 57, "H"),
       Option("renewal_t1_time_value", 58, "I"),
       Option("rebinding_t2_time_value", 59, "I"),
       Option("vendor_id", 60, "raw"),
       Option("client_id", 61, "raw"),
       Option("tftp_server_name", 66, "raw"),
       Option("bootfile_name", 67, "raw") >>

\* The result of get_dhcp_option_by_number for a number of no option: None.
NoOption == Option("None", -1, "None")

RECURSIVE ScanOptions(_, _)
\* The for loop of get_dhcp_option_by_number from the i-th catalog entry on.
ScanOptions(number, i) ==
    IF i > Len(DHCP_PACKET_OPTIONS) THEN NoOption
    ELSE IF DHCP_PACKET_OPTIONS[i].number = number THEN DHCP_PACKET_OPTIONS[i]
         ELSE ScanOptions(number, i + 1)

\* Faulty variant: the catalog taken as sorted by number, the option read at
\* the position of its number.
get_dhcp_option_by_number_byIndex(number) ==
    IF number \in 1..Len(DHCP_PACKET_OPTIONS) THEN DHCP_PACKET_OPTIONS[number]
    ELSE NoOption

get_dhcp_option_by_number(number) == ScanOptions(number, 1)

----------------------------------------------------------------------------
\* The packet: _fields maps field names to values, _options maps option
\* numbers to values (the dictionaries are keyed by the catalog's tuples, which
\* differ in those).

EmptyDict == [k \in {} |-> NoneV]

\* d.get(key): None for a key the dictionary does not hold.
Get(d, key) == IF key \in DOMAIN d THEN d[key] ELSE NoneV

\* d.get(key, default).
GetDefault(d, key, default) == IF key \in DOMAIN d THEN d[key] ELSE default

\* d[key] = value.
Put(d, key, value) ==
    [k \in DOMAIN d \cup {key} |-> IF k = key THEN value ELSE d[k]]

\* Faulty variant: is_valid without the comparison of the magic cookie.
is_valid_no_cookie(fields) ==
    \A i \in 1..Len(DHCP_PACKET_FIELDS) :
        Get(fields, DHCP_PACKET_FIELDS[i].name) # NoneV

RECURSIVE AllFieldsFrom(_, _)
\* The for loop of is_valid from the i-th field on: False at the first field
\* whose value is None.
AllFieldsFrom(fields, i) ==
    IF i > Len(DHCP_PACKET_FIELDS) THEN TRUE
    ELSE IF Get(fields, DHCP_PACKET_FIELDS[i].name) = NoneV THEN FALSE
         ELSE AllFieldsFrom(fields, i + 1)

is_valid(fields) ==
    IF ~AllFieldsFrom(fields, 1) THEN FALSE
    ELSE IF fields["magic_cookie"] # FIELD_VALUE_MAGIC_COOKIE THEN FALSE
         ELSE TRUE

\* Faulty variant: every value other than 1..8 is reported as unknown.
message_type_clamped(options) ==
    LET v == GetDefault(options, 53, OPTION_VALUE_DHCP_MESSAGE_TYPE_UNKNOWN)
    IN IF v.t = "int" /\ v.hi = 0 /\ v.lo >= 1 /\ v.lo <= 8 THEN v
       ELSE OPTION_VALUE_DHCP_MESSAGE_TYPE_UNKNOWN

message_type(options) ==
    GetDefault(options, 53, OPTION_VALUE_DHCP_MESSAGE_TYPE_UNKNOWN)

transaction_id(fields) == Get(fields, "xid")

client_hw_address(fields) == Get(fields, "chaddr")

get_field(fields, name) == Get(fields, name)

get_option(options, number) == Get(options, number)

\* Faulty variant: setting a field to the value it holds removes the entry.
set_field_toggle(fields, name, field_value) ==
    IF name \in DOMAIN fields /\ fields[name] = field_value
    THEN [k \in DOMAIN fields \ {name} |-> fields[k]]
    ELSE Put(fields, name, field_value)

set_field(fields, name, field_value) == Put(fields, name, field_value)

set_option(options, number, option_value) == Put(options, number, option_value)

----------------------------------------------------------------------------
\* to_binary_string.  The accumulator is [ok, data, offset]: the bytes joined
\* so far and the running offset, or the exception a pack raised.

Acc(data, offset) == [ok |-> TRUE, data |-> data, offset |-> offset]
AccRaised == [ok |-> FALSE, data |-> <<>>, offset |-> 0]

\* Faulty variant: no padding up to the field's offset.
EmitField_nogap(acc, field, value) ==
    LET field_data == pack(field.kind, value)
    IN IF ~field_data.ok THEN AccRaised
       ELSE Acc(acc.data \o field_data.v, acc.offset + field.size)

\* One turn of the field loop: pack, pad up to the field's offset, append.
EmitField(acc, field, value) ==
    LET field_data == pack(field.kind, value)
        gap == IF acc.offset < field.offset THEN field.offset - acc.offset ELSE 0
    IN IF ~field_data.ok THEN AccRaised
       ELSE Acc(acc.data \o Zeros(gap) \o field_data.v,
                acc.offset + gap + field.size)

RECURSIVE EmitFields(_, _, _)
EmitFields(fields, i, acc) ==
    IF ~acc.ok \/ i > Len(DHCP_PACKET_FIELDS) THEN acc
    ELSE EmitFields(fields, i + 1,
                    EmitField(acc, DHCP_PACKET_FIELDS[i],
                              fields[DHCP_PACKET_FIELDS[i].name]))

\* Faulty variant: a length over 255 is written modulo 256.
OptionHeader_wrap(number, length) ==
    IF number < 0 \/ number > 255 THEN Raised
    ELSE Ok(<<number, length % 256>>)

\* struct.pack("BB", number, length): struct.error when the length is over 255.
OptionHeader(number, length) ==
    IF number < 0 \/ number > 255 \/ length > 255 THEN Raised
    ELSE Ok(<<number, length>>)

\* One turn of the option loop: nothing for an option whose value is None.
EmitOption(acc, option, option_value) ==
    IF option_value = NoneV THEN acc
    ELSE LET seriallized_value == pack(option.kind, option_value)
         IN IF ~seriallized_value.ok THEN AccRaised
            ELSE LET header == OptionHeader(option.number,
                                            Len(seriallized_value.v))
                 IN IF ~header.ok THEN AccRaised
                    ELSE Acc(acc.data \o header.v \o seriallized_value.v,
                             acc.offset + 2 + Len(seriallized_value.v))

\* Faulty variant: the option loop walks the options in the order they were set.
OptionWalk_byInsertion ==
    [i \in 1..Len(setOrder) |-> get_dhcp_option_by_number(setOrder[i])]

\* Faulty variant: the catalog with subnet_mask ahead of routers.
OptionWalk_subnetFirst ==
    <<DHCP_PACKET_OPTIONS[1], DHCP_PACKET_OPTIONS[3], DHCP_PACKET_OPTIONS[2]>>
        \o SubSeq(DHCP_PACKET_OPTIONS, 4, Len(DHCP_PACKET_OPTIONS))

\* The order in which the option loop visits the options.
OptionWalk == DHCP_PACKET_OPTIONS

RECURSIVE EmitOptions(_, _, _)
EmitOptions(options, i, acc) ==
    IF ~acc.ok \/ i > Len(OptionWalk) THEN acc
    ELSE EmitOptions(options, i + 1,
                     EmitOption(acc, OptionWalk[i],
                                Get(options, OptionWalk[i].number)))

\* Faulty variant: the tail is filled with end markers, not pad bytes.
EmitTail_allEnd(acc) ==
    acc.data \o <<OPTION_END>>
             \o [i \in 1..Max(0, DHCP_MIN_PACKET_SIZE - (acc.offset + 1)) |->
                    OPTION_END]

\* Faulty variant: the output cut to the minimum size.
EmitTail_cut(acc) ==
    SubSeq(acc.data \o <<OPTION_END>> \o Zeros(DHCP_MIN_PACKET_SIZE),
           1, DHCP_MIN_PACKET_SIZE)

\* The end marker, then pad bytes while the offset is under the minimum size.
EmitTail(acc) ==
    acc.data \o <<OPTION_END>>
             \o [i \in 1..Max(0, DHCP_MIN_PACKET_SIZE - (acc.offset + 1)) |->
                    OPTION_PAD]

\* Faulty variant: an empty byte string, not None, for a packet that is not valid.
to_binary_string_empty(fields, options) ==
    IF ~is_valid(fields) THEN [r |-> "bytes", b |-> <<>>]
    ELSE LET acc == EmitOptions(options, 1, EmitFields(fields, 1, Acc(<<>>, 0)))
         IN IF ~acc.ok THEN [r |-> "raised", b |-> <<>>]
            ELSE [r |-> "bytes", b |-> EmitTail(acc)]

\* What a call returns: None, a byte string, or the exception it raised.
RetNone == [r |-> "None", b |-> <<>>]
RetBytes(b) == [r |-> "bytes", b |-> b]
RetRaised == [r |-> "raised", b |-> <<>>]

to_binary_string(fields, options) ==
    IF ~is_valid(fields) THEN RetNone
    ELSE LET acc == EmitOptions(options, 1,
                                EmitFields(fields, 1, Acc(<<>>, 0)))
         IN IF ~acc.ok THEN RetRaised ELSE RetBytes(EmitTail(acc))

----------------------------------------------------------------------------
\* DhcpPacket(byte_str): the decoding constructor.  The result is the new
\* packet's two dictionaries, or the exception the constructor raised.

Packet(fields, options) ==
    [status |-> "ok", fields |-> fields, options |-> options]
PacketRaised == [status |-> "raised", fields |-> EmptyDict, options |-> EmptyDict]

\* Faulty variant: the field loop stops ahead of the last field, the magic
\* cookie.
UnpackFields_butLast(byte_str, i, fields) ==
    LET some == {DHCP_PACKET_FIELDS[j] : j \in 1..(Len(DHCP_PACKET_FIELDS) - 1)}
    IN [n \in {f.name : f \in some} |->
           LET field == CHOOSE f \in some : f.name = n
           IN unpack(field.kind,
                     Slice(byte_str, field.offset, field.offset + field.size)).v]

RECURSIVE UnpackFields(_, _, _)
\* The field loop: every field from its slice [offset, offset + size).
UnpackFields(byte_str, i, fields) ==
    IF i > Len(DHCP_PACKET_FIELDS) THEN fields
    ELSE LET field == DHCP_PACKET_FIELDS[i]
             value == unpack(field.kind,
                             Slice(byte_str, field.offset,
                                   field.offset + field.size))
         IN UnpackFields(byte_str, i + 1, Put(fields, field.name, value.v))

\* Faulty variant: the payload is not skipped.
AfterPayload_stay(offset, data_length) == offset

\* The offset after an option of data_length bytes whose payload starts at
\* offset.
AfterPayload(offset, data_length) == offset + data_length

\* Faulty variant: the end marker does not stop the loop.
Scanning_noEnd(byte_str, offset) == offset < Len(byte_str)

\* The condition of the while loop: inside the buffer and not at an end
\* marker.
Scanning(byte_str, offset) ==
    offset < Len(byte_str) /\ byte_str[offset + 1] # OPTION_END

\* Faulty variant: an option the packet already holds keeps its first value.
StoreOption_keepFirst(options, number, option_value) ==
    IF number \in DOMAIN options THEN options ELSE Put(options, number, option_value)

\* self._options[option] = option_value
StoreOption(options, number, option_value) == Put(options, number, option_value)

RECURSIVE UnpackOptions(_, _, _)
\* The while loop from `offset` on, with the options stored so far.
UnpackOptions(byte_str, offset, options) ==
    IF ~Scanning(byte_str, offset)
    THEN [ok |-> TRUE, v |-> options]
    ELSE LET data_type == byte_str[offset + 1]
         IN IF data_type = OPTION_PAD
            THEN UnpackOptions(byte_str, offset + 1, options)
            ELSE IF offset + 1 >= Len(byte_str)
            THEN Raised     \* byte_str[offset]: IndexError
            ELSE LET data_length == byte_str[offset + 2]
                     data == Slice(byte_str, offset + 2,
                                   offset + 2 + data_length)
                     next == AfterPayload(offset + 2, data_length)
                     option == get_dhcp_option_by_number(data_type)
                 IN IF option = NoOption
                    THEN UnpackOptions(byte_str, next, options)
                    ELSE LET option_value == unpack(option.kind, data)
                         IN IF ~option_value.ok THEN Raised
                            ELSE UnpackOptions(byte_str, next,
                                               StoreOption(options, option.number,
                                                           option_value.v))

\* Faulty variant: a buffer of exactly the header's length is decoded.
DhcpPacket_offByOne(byte_str) ==
    IF Len(byte_str) < OPTIONS_START_OFFSET
    THEN Packet(EmptyDict, EmptyDict)
    ELSE LET fields == UnpackFields(byte_str, 1, EmptyDict)
             options == UnpackOptions(byte_str, OPTIONS_START_OFFSET, EmptyDict)
         IN IF ~options.ok THEN PacketRaised
            ELSE Packet(fields, options.v)

DhcpPacket(byte_str) ==
    IF Len(byte_str) < OPTIONS_START_OFFSET + 1
    THEN Packet(EmptyDict, EmptyDict)
    ELSE LET fields == UnpackFields(byte_str, 1, EmptyDict)
             options == UnpackOptions(byte_str, OPTIONS_START_OFFSET, EmptyDict)
         IN IF ~options.ok THEN PacketRaised
            ELSE Packet(fields, options.v)

----------------------------------------------------------------------------
\* The factories.

\* Faulty variant: the address padded to the 16 bytes of the chaddr field.
PadHwAddr_toFieldSize(hwmac_addr) ==
    hwmac_addr \o Zeros(Max(0, 16 - Len(hwmac_addr)))

RECURSIVE PadHwAddr(_)
\* while len(hwmac_addr) < 12: hwmac_addr += chr(OPTION_PAD)
PadHwAddr(hwmac_addr) ==
    IF Len(hwmac_addr) < 12 THEN PadHwAddr(hwmac_addr \o <<OPTION_PAD>>)
    ELSE hwmac_addr

\* The thirteen set_field calls the four factories share, in their order.
FactoryFields(op_value, xid, yiaddr, siaddr, hwmac_addr) ==
    LET f1 == set_field(EmptyDict, "op", op_value)
        f2 == set_field(f1, "htype", Num(1))
        f3 == set_field(f2, "hlen", Num(6))
        f4 == set_field(f3, "hops", Num(0))
        f5 == set_field(f4, "xid", xid)
        f6 == set_field(f5, "secs", Num(0))
        f7 == set_field(f6, "flags", Num(0))
        f8 == set_field(f7, "ciaddr", IPV4_NULL_ADDRESS)
        f9 == set_field(f8, "yiaddr", yiaddr)
        f10 == set_field(f9, "siaddr", siaddr)
        f11 == set_field(f10, "giaddr", IPV4_NULL_ADDRESS)
        f12 == set_field(f11, "chaddr", hwmac_addr)
    IN set_field(f12, "magic_cookie", FIELD_VALUE_MAGIC_COOKIE)

\* random_xid stands for random.getrandbits(32).
create_discovery_packet(hwmac_addr, random_xid) ==
    Packet(FactoryFields(Num(1), random_xid, IPV4_NULL_ADDRESS,
                         IPV4_NULL_ADDRESS, Str(PadHwAddr(hwmac_addr.v))),
           set_option(EmptyDict, 53, Num(1)))

create_offer_packet(xid, hwmac_addr, offer_ip, server_ip) ==
    Packet(FactoryFields(Num(2), xid, offer_ip, server_ip,
                         hwmac_addr),
           set_option(EmptyDict, 53, Num(2)))

\* Faulty variant: the request pads the hardware address as the discovery does.
create_request_packet_padded(xid, hwmac_addr) ==
    Packet(FactoryFields(Num(1), xid, IPV4_NULL_ADDRESS,
                         IPV4_NULL_ADDRESS, Str(PadHwAddr(hwmac_addr.v))),
           set_option(EmptyDict, 53, Num(3)))

create_request_packet(xid, hwmac_addr) ==
    Packet(FactoryFields(Num(1), xid, IPV4_NULL_ADDRESS,
                         IPV4_NULL_ADDRESS, hwmac_addr),
           set_option(EmptyDict, 53, Num(3)))

\* Faulty variant: the acknowledgement carries the message type of an offer.
create_acknowledgement_packet_asOffer(xid, hwmac_addr, granted_ip, server_ip) ==
    Packet(FactoryFields(Num(2), xid, granted_ip, server_ip,
                         hwmac_addr),
           set_option(EmptyDict, 53, Num(2)))

create_acknowledgement_packet(xid, hwmac_addr, granted_ip, server_ip) ==
    Packet(FactoryFields(Num(2), xid, granted_ip, server_ip,
                         hwmac_addr),
           set_option(EmptyDict, 53, Num(5)))

----------------------------------------------------------------------------
\* The inputs the operations are called with.

\* How many set_field and set_option calls a packet gets after its
\* construction.
MaxSets == 2

\* How many pieces an assembled options region holds.
MaxParts == 3

Bytes(n, first) == [i \in 1..n |-> (first + i - 1) % 256]

Mac6 == Str(<<0, 17, 34, 51, 68, 85>>)     \* "\x00\x11\x22\x33\x44\x55"
Mac6b == Str(<<255, 0, 9, 200, 1, 255>>)
Hw12 == Str(Bytes(12, 1))
Hw16 == Str(Bytes(16, 1))
Hw18 == Str(Bytes(18, 161))
Xid_DEADBEEF == PyInt(57005, 48879)
Xid_Max == PyInt(65535, 65535)              \* 2^32 - 1
Xid_TooBig == PyInt(65536, 0)               \* 2^32
OfferIp == Ip(<<192, 168, 1, 10>>)
ServerIp == Ip(<<192, 168, 1, 1>>)
OtherServerIp == Ip(<<10, 0, 0, 254>>)
Xid_12345678 == PyInt(4660, 22136)

\* The (field, value) pairs set_field is called with.
FieldInputs ==
    << <<"op", Num(2)>>,
       <<"op", Num(256)>>,
       <<"xid", Xid_Max>>,
       <<"xid", Xid_12345678>>,
       <<"xid", NoneV>>,
       <<"secs", Num(258)>>,
       <<"ciaddr", Ip(<<10, 1>>)>>,
       <<"chaddr", Str(<<1, 2, 3>>)>>,
       <<"magic_cookie", Num(0)>>,
       <<"magic_cookie", FIELD_VALUE_MAGIC_COOKIE>> >>

\* The (option number, value) pairs set_option is called with.
OptionInputs ==
    << <<1, Ip(<<255, 255, 255, 0>>)>>,
       <<3, IpList(<< <<192, 168, 1, 1>>, <<10, 2>> >>)>>,
       <<2, PyInt(1, 2)>>,
       <<12, Str(<<104, 255>>)>>,
       <<15, Str(Bytes(70, 97))>>,
       <<16, Ip(<<10, 0, 0, 9>>)>>,
       <<13, Num(258)>>,
       <<53, Num(9)>>,
       <<53, Num(0)>>,
       <<53, NoneV>>,
       <<55, ByteList(<<50, 51, 54, 1, 3, 6, 12>>)>>,
       <<6, IpList(<<>>)>>,
       <<60, Str(Bytes(256, 0))>>,
       <<5, IpList(<< <<8, 8, 8, 8>>, <<8, 8, 4, 4>> >>)>>,
       <<61, Str(Bytes(255, 1))>> >>

----------------------------------------------------------------------------
NotCalled == [r |-> "-", b |-> <<>>]

\* No lookup was made.
NotLooked == Option("-", -2, "-")

LookupIdle == queried = -1 /\ found = NotLooked

\* The names two instances are bound to.
Names == {"p", "q"}

\* A name no instance is bound to yet.
Unbound == [f |-> 0, o |-> 0]

NoCall == [on |-> "-", what |-> "-", args |-> <<>>]

\* What a call returned: None, a boolean (is_valid) or to_binary_string's
\* result.
NoResult == [kind |-> "None", valid |-> FALSE, ret |-> NotCalled]

\* The module's two catalog lists as the import leaves them.
Catalogs ==
    [DHCP_PACKET_FIELDS |-> DHCP_PACKET_FIELDS,
     DHCP_PACKET_OPTIONS |-> DHCP_PACKET_OPTIONS]

\* No instance was built.
PairIdle ==
    /\ heap = <<>>
    /\ inst = [n \in Names |-> Unbound]
    /\ call = NoCall
    /\ prev = NoCall
    /\ before = [heap |-> <<>>, inst |-> [n \in Names |-> Unbound]]
    /\ result = NoResult
    /\ ncalls = 0
    /\ globals = Catalogs

\* No call is being run turn by turn.
LoopIdle ==
    /\ pc = "idle"
    /\ cur_byte_str = <<>>
    /\ cur_packet = Packet(EmptyDict, EmptyDict)
    /\ cur_offset = 0
    /\ cur_data = <<>>
    /\ cur_field = 0
    /\ nturns = 0

NotDecoded == [status |-> "-", fields |-> EmptyDict, options |-> EmptyDict]

\* A constructing call: the callee, and the arguments by parameter name.
NoArgs == [call |-> "__init__"]

\* Nothing encoded or decoded yet on the packet just built by `name`, whose
\* set_option calls so far were for `order`.
Fresh(name, order) ==
    /\ setOrder' = order
    /\ touched' = {}
    /\ UNCHANGED <<lookup, pair, loop>>
    /\ nsets' = 0
    /\ op' = name
    /\ ret' = NotCalled
    /\ wire' = <<>>
    /\ parts' = <<>>
    /\ rx' = NotDecoded

Init ==
    /\ _fields = EmptyDict
    /\ _options = EmptyDict
    /\ setOrder = <<>>
    /\ nsets = 0
    /\ op = "__init__"
    /\ ret = NotCalled
    /\ wire = <<>>
    /\ parts = <<>>
    /\ rx = NotDecoded
    /\ args = NoArgs
    /\ touched = {}
    /\ LookupIdle
    /\ PairIdle
    /\ LoopIdle

\* No packet is in use yet: a behaviour follows one packet from its
\* construction (the constructor and the factories each build a new instance).
Unused == op = "__init__" /\ nsets = 0 /\ ret = NotCalled

\* DhcpPacket()
NewPacket ==
    /\ Unused
    /\ _fields' = EmptyDict
    /\ _options' = EmptyDict
    /\ args' = NoArgs
    /\ Fresh("__init__", <<>>)

CreateDiscovery ==
    /\ Unused
    /\ \E in \in {<<Mac6, Xid_DEADBEEF>>, <<Mac6b, Xid_Max>>, <<Hw12, Xid_DEADBEEF>>, <<Hw16, Xid_DEADBEEF>>} :
        LET hw == in[1]
            packet == create_discovery_packet(hw, in[2]) IN
        /\ _fields' = packet.fields
        /\ _options' = packet.options
        /\ args' = [call |-> "create_discovery_packet", hwmac_addr |-> hw]
        /\ Fresh("create_discovery_packet", <<53>>)

CreateOffer ==
    /\ Unused
    /\ \E in \in {<<Mac6, OfferIp>>, <<Hw18, ServerIp>>} :
        LET hw == in[1]
            ip == in[2]
            packet == create_offer_packet(Xid_DEADBEEF, hw, ip, ServerIp) IN
        /\ _fields' = packet.fields
        /\ _options' = packet.options
        /\ args' = [call |-> "create_offer_packet",
                    transaction_id |-> Xid_DEADBEEF, hwmac_addr |-> hw,
                    offer_ip |-> ip, server_ip |-> ServerIp]
        /\ Fresh("create_offer_packet", <<53>>)

CreateRequest ==
    /\ Unused
    /\ \E in \in {<<Xid_DEADBEEF, Mac6>>, <<Xid_TooBig, Hw16>>} :
        LET xid == in[1]
            hw == in[2]
            packet == create_request_packet(xid, hw) IN
        /\ _fields' = packet.fields
        /\ _options' = packet.options
        /\ args' = [call |-> "create_request_packet",
                    transaction_id |-> xid, hwmac_addr |-> hw]
        /\ Fresh("create_request_packet", <<53>>)

CreateAcknowledgement ==
    /\ Unused
    /\ \E in \in {<<Mac6, OtherServerIp>>, <<Hw16, ServerIp>>} :
        LET hw == in[1]
            ip == in[2]
            packet == create_acknowledgement_packet(Xid_Max, hw, OfferIp, ip) IN
        /\ _fields' = packet.fields
        /\ _options' = packet.options
        /\ args' = [call |-> "create_acknowledgement_packet",
                    transaction_id |-> Xid_Max, hwmac_addr |-> hw,
                    granted_ip |-> OfferIp, server_ip |-> ip]
        /\ Fresh("create_acknowledgement_packet", <<53>>)

\* The packet is populated before it is serialized.
Populating == nsets < MaxSets /\ ret = NotCalled /\ rx = NotDecoded

SetField ==
    /\ Populating
    /\ \E i \in 1..Len(FieldInputs) :
          /\ _fields' = set_field(_fields, FieldInputs[i][1], FieldInputs[i][2])
          /\ touched' = touched \cup {<<"set_field", FieldInputs[i][1]>>}
    /\ nsets' = nsets + 1
    /\ op' = "set_field"
    /\ UNCHANGED <<_options, setOrder, ret, wire, parts, rx, args, lookup, pair, loop>>

SetOption ==
    /\ Populating
    /\ \E i \in 1..Len(OptionInputs) :
          LET number == OptionInputs[i][1] IN
          /\ _options' = set_option(_options, number, OptionInputs[i][2])
          /\ setOrder' = SelectSeq(setOrder, LAMBDA n : n # number)
                            \o <<number>>
          /\ touched' = touched \cup {<<"set_option", number>>}
    /\ nsets' = nsets + 1
    /\ op' = "set_option"
    /\ UNCHANGED <<_fields, ret, wire, parts, rx, args, lookup, pair, loop>>

ToBinaryString ==
    /\ rx = NotDecoded
    /\ ret' = to_binary_string(_fields, _options)
    /\ op' = "to_binary_string"
    /\ UNCHANGED <<_fields, _options, setOrder, nsets, wire, parts, rx, args, touched, lookup, pair, loop>>

\* The bytes to_binary_string returned, given to the decoding constructor.
Receive ==
    /\ ret.r = "bytes"
    /\ rx = NotDecoded
    /\ wire' = ret.b
    /\ rx' = DhcpPacket(ret.b)
    /\ op' = "decode"
    /\ UNCHANGED <<_fields, _options, setOrder, nsets, ret, parts, args, touched, lookup, pair, loop>>

\* The transport delivers the bytes cut short, or with a byte of the magic
\* cookie changed.
ReceiveDamaged ==
    /\ ret.r = "bytes"
    /\ rx = NotDecoded
    /\ \E damaged \in {SubSeq(ret.b, 1, 100), SubSeq(ret.b, 1, OPTIONS_START_OFFSET),
                       [ret.b EXCEPT ![237] = 0]} :
          /\ wire' = damaged
          /\ rx' = DhcpPacket(damaged)
    /\ op' = "decode"
    /\ UNCHANGED <<_fields, _options, setOrder, nsets, ret, parts, args, touched, lookup, pair, loop>>

Next ==
    \/ NewPacket
    \/ CreateDiscovery
    \/ CreateOffer
    \/ CreateRequest
    \/ CreateAcknowledgement
    \/ SetField
    \/ SetOption
    \/ ToBinaryString
    \/ Receive
    \/ ReceiveDamaged

Spec == Init /\ [][Next]_vars

----------------------------------------------------------------------------
\* The decoder on buffers a transport may deliver: a header, cut short or
\* whole, followed by an options region assembled from pieces.

\* The 240 header bytes of an offer.
WireHeader ==
    SubSeq(to_binary_string(
               create_offer_packet(Xid_DEADBEEF, Mac6, OfferIp, ServerIp).fields,
               EmptyDict).b,
           1, OPTIONS_START_OFFSET)

\* The same header with a wrong magic cookie.
BadCookieHeader == [WireHeader EXCEPT ![237] = 0]

\* The pieces: pad, end, well-formed known and unknown options, and malformed
\* ones.
WireParts ==
    << <<0>>,                                   \* pad
       <<255>>,                                 \* end
       <<1, 4, 255, 255, 255, 0>>,              \* subnet_mask
       <<53, 1, 1>>,                            \* dhcp_message_type 1
       <<53, 1, 5>>,                            \* dhcp_message_type 5
       <<53, 1, 9>>,                            \* dhcp_message_type 9
       <<99, 2, 7, 7>>,                         \* a tag of no option
       <<3, 8, 10, 0, 0, 1, 10, 0, 0, 2>>,      \* routers, two addresses
       <<12, 1, 255>>,                          \* host_name "\xff"
       <<12, 0>>,                               \* host_name ""
       <<53>>,                                  \* a tag and nothing after it
       <<12, 5, 65>>,                           \* length 5, one byte of payload
       <<53, 2, 1, 1>> >>                       \* two bytes for a one-byte option

InitWire ==
    /\ _fields = EmptyDict
    /\ _options = EmptyDict
    /\ setOrder = <<>>
    /\ nsets = 0
    /\ op = "wire"
    /\ ret = NotCalled
    /\ wire \in {WireHeader, BadCookieHeader, SubSeq(WireHeader, 1, 239),
                    SubSeq(WireHeader, 1, 100), <<>>}
    /\ parts = <<>>
    /\ rx = NotDecoded
    /\ args = NoArgs
    /\ touched = {}
    /\ LookupIdle
    /\ PairIdle
    /\ LoopIdle

\* One more piece arrives behind a whole header.
AppendPart ==
    /\ rx = NotDecoded
    /\ Len(wire) >= OPTIONS_START_OFFSET
    /\ Len(parts) < MaxParts
    /\ \E i \in 1..Len(WireParts) :
          /\ wire' = wire \o WireParts[i]
          /\ parts' = Append(parts, WireParts[i])
    /\ op' = "wire"
    /\ UNCHANGED <<_fields, _options, setOrder, nsets, ret, rx, args, touched, lookup, pair, loop>>

\* DhcpPacket(byte_str)
Decode ==
    /\ rx = NotDecoded
    /\ rx' = DhcpPacket(wire)
    /\ op' = "decode"
    /\ UNCHANGED <<_fields, _options, setOrder, nsets, ret, wire, parts, args, touched, lookup, pair, loop>>

NextWire == AppendPart \/ Decode

SpecWire == InitWire /\ [][NextWire]_vars

----------------------------------------------------------------------------
\* get_dhcp_option_by_number called with the values of a tag byte.

Lookup ==
    /\ \E n \in 0..255 :
          /\ queried' = n
          /\ found' = get_dhcp_option_by_number(n)
    /\ UNCHANGED <<single, pair, loop>>

NextLookup == Lookup

SpecLookup == Init /\ [][NextLookup]_vars

----------------------------------------------------------------------------
\* Two packets side by side.  `self._options = {}` and `self._fields = {}`
\* make two new dictionaries for every instance; the heap holds them by
\* address, in the order they were made.

\* How many calls are made on the two names together.
MaxCalls == 4

\* Faulty variant: the two dictionaries are attributes of the class, one pair
\* for all instances.
NewDict_classLevel(h, attr) == IF attr = "_fields" THEN 1 ELSE 2

\* The address of the dictionary a `{}` makes: one no dictionary has yet.
NewDict(h, attr) == Len(h) + 1

\* h with the dictionary d at the address.
Store(h, addr, d) == IF addr <= Len(h) THEN [h EXCEPT ![addr] = d] ELSE Append(h, d)

\* __init__ and the calls that fill the new instance: the two dictionaries
\* are made empty, then hold what the constructing call stored in them.
Construct(h, packet) ==
    LET f == NewDict(h, "_fields")
        h1 == Store(h, f, EmptyDict)
        o == NewDict(h1, "_options")
        h2 == Store(h1, o, EmptyDict)
    IN [heap |-> Store(Store(h2, f, packet.fields), o, packet.options),
        ref |-> [f |-> f, o |-> o]]

\* The field and option dictionaries of the instance bound to a name.
FieldsOf(h, i, n) == h[i[n].f]
OptionsOf(h, i, n) == h[i[n].o]

\* The buffer a peer sent: the header of an offer, an acknowledgement type
\* and a subnet mask.
PeerBuffer == WireHeader \o <<53, 1, 5, 1, 4, 255, 255, 255, 0, 255>>

PairFieldInputs ==
    << <<"xid", Xid_12345678>>,
       <<"magic_cookie", Num(0)>> >>

PairOptionInputs ==
    << <<1, Ip(<<255, 255, 0, 0>>)>>,
       <<53, Num(6)>> >>

\* The bookkeeping of a call on the name n.
Called(n, what, a) ==
    /\ ncalls < MaxCalls
    /\ ncalls' = ncalls + 1
    /\ prev' = call
    /\ call' = [on |-> n, what |-> what, args |-> a]
    /\ before' = [heap |-> heap, inst |-> inst]
    /\ UNCHANGED <<single, lookup, globals, loop>>

\* n = DhcpPacket(), n = DhcpPacket.create_offer_packet(...), or
\* n = DhcpPacket(byte_str).
PairConstruct ==
    \E n \in Names :
    \E made \in {<<"__init__", Packet(EmptyDict, EmptyDict)>>,
                 <<"create_offer_packet",
                   create_offer_packet(Xid_DEADBEEF, Mac6, OfferIp, ServerIp)>>,
                 <<"decode", DhcpPacket(PeerBuffer)>>} :
        LET new == Construct(heap, made[2]) IN
        /\ heap' = new.heap
        /\ inst' = [inst EXCEPT ![n] = new.ref]
        /\ result' = NoResult
        /\ Called(n, made[1], <<>>)

PairSetField ==
    \E n \in Names, i \in 1..Len(PairFieldInputs) :
        /\ inst[n] # Unbound
        /\ heap' = Store(heap, inst[n].f,
                         set_field(FieldsOf(heap, inst, n),
                                   PairFieldInputs[i][1], PairFieldInputs[i][2]))
        /\ result' = NoResult
        /\ Called(n, "set_field", PairFieldInputs[i])
        /\ UNCHANGED inst

PairSetOption ==
    \E n \in Names, i \in 1..Len(PairOptionInputs) :
        /\ inst[n] # Unbound
        /\ heap' = Store(heap, inst[n].o,
                         set_option(OptionsOf(heap, inst, n),
                                    PairOptionInputs[i][1], PairOptionInputs[i][2]))
        /\ result' = NoResult
        /\ Called(n, "set_option", PairOptionInputs[i])
        /\ UNCHANGED inst

PairIsValid ==
    \E n \in Names :
        /\ inst[n] # Unbound
        /\ result' = [kind |-> "bool", valid |-> is_valid(FieldsOf(heap, inst, n)),
                      ret |-> NotCalled]
        /\ Called(n, "is_valid", <<>>)
        /\ UNCHANGED <<heap, inst>>

PairToBinaryString ==
    \E n \in Names :
        /\ inst[n] # Unbound
        /\ result' = [kind |-> "ret", valid |-> FALSE,
                      ret |-> to_binary_string(FieldsOf(heap, inst, n),
                                               OptionsOf(heap, inst, n))]
        /\ Called(n, "to_binary_string", <<>>)
        /\ UNCHANGED <<heap, inst>>

NextPair ==
    \/ PairConstruct
    \/ PairSetField
    \/ PairSetOption
    \/ PairIsValid
    \/ PairToBinaryString

SpecPair == Init /\ [][NextPair]_vars

----------------------------------------------------------------------------
\* The encoder on values at and beyond what the wire format holds: integers
\* at and outside the range of their width, payloads of 255 bytes and more.

Addresses(n) == [i \in 1..n |-> <<10, 0, i \div 256, i % 256>>]

FaultFieldInputs ==
    << <<"op", Num(256)>>,
       <<"hops", Num(255)>>,
       <<"secs", PyInt(1, 0)>>,                  \* 65536
       <<"secs", Num(65535)>>,
       <<"flags", PyInt(-1, 65535)>>,            \* -1
       <<"xid", Xid_TooBig>> >>

FaultOptionInputs ==
    << <<52, Num(256)>>,
       <<13, PyInt(-1, 65535)>>,                 \* -1
       <<57, Num(65535)>>,
       <<51, PyInt(65536, 0)>>,                  \* 2^32
       <<60, Str(Bytes(256, 0))>>,
       <<60, Str(Bytes(255, 0))>>,
       <<3, IpList(Addresses(64))>>,
       <<3, IpList(Addresses(63))>> >>

SetFieldFault ==
    /\ Populating
    /\ \E i \in 1..Len(FaultFieldInputs) :
          /\ _fields' = set_field(_fields, FaultFieldInputs[i][1],
                                  FaultFieldInputs[i][2])
          /\ touched' = touched \cup {<<"set_field", FaultFieldInputs[i][1]>>}
    /\ nsets' = nsets + 1
    /\ op' = "set_field"
    /\ UNCHANGED <<_options, setOrder, ret, wire, parts, rx, args, lookup, pair, loop>>

SetOptionFault ==
    /\ Populating
    /\ \E i \in 1..Len(FaultOptionInputs) :
          LET number == FaultOptionInputs[i][1] IN
          /\ _options' = set_option(_options, number, FaultOptionInputs[i][2])
          /\ setOrder' = SelectSeq(setOrder, LAMBDA n : n # number)
                            \o <<number>>
          /\ touched' = touched \cup {<<"set_option", number>>}
    /\ nsets' = nsets + 1
    /\ op' = "set_option"
    /\ UNCHANGED <<_fields, ret, wire, parts, rx, args, lookup, pair, loop>>

NextFault ==
    \/ CreateOffer
    \/ CreateRequest
    \/ SetFieldFault
    \/ SetOptionFault
    \/ ToBinaryString

SpecFault == Init /\ [][NextFault]_vars

----------------------------------------------------------------------------
\* What the claims speak of.

FieldNames == {DHCP_PACKET_FIELDS[i].name : i \in 1..Len(DHCP_PACKET_FIELDS)}

OptionNumbers == {DHCP_PACKET_OPTIONS[i].number : i \in 1..Len(DHCP_PACKET_OPTIONS)}

FieldsOfKind(kind) ==
    {DHCP_PACKET_FIELDS[i].name :
        i \in {j \in 1..Len(DHCP_PACKET_FIELDS) : DHCP_PACKET_FIELDS[j].kind = kind}}

OptionsOfKind(kind) ==
    {DHCP_PACKET_OPTIONS[i].number :
        i \in {j \in 1..Len(DHCP_PACKET_OPTIONS) : DHCP_PACKET_OPTIONS[j].kind = kind}}

\* The decoder was given exactly the bytes to_binary_string returned.
Intact == op = "decode" /\ ret.r = "bytes" /\ wire = ret.b

\* A byte string right-padded with zero bytes to 16 bytes, or cut to 16.
PadOrCut16(b) == [i \in 1..16 |-> IF i <= Len(b) THEN b[i] ELSE 0]

\* Two dotted addresses name the same four bytes, and the second is written
\* in four parts.
SameAddress(p, q) ==
    /\ Len(q) = 4
    /\ inet_aton_parts(p) = inet_aton_parts(q)
    /\ (Len(p) = 4 => p = q)

\* The packet holds a value (not None) for the option.
Present(options, number) == Get(options, number) # NoneV

\* The options region of an encoded packet read item by item from the 0-based
\* offset k to the end marker: <<tag, payload>> pairs; <<-1, <<>>>> marks a
\* region that ends inside an item.
RECURSIVE RegionItems(_, _)
RegionItems(b, k) ==
    IF k >= Len(b) THEN << <<-1, <<>> >> >>
    ELSE IF b[k + 1] = 255 THEN <<>>
    ELSE IF k + 2 > Len(b) \/ k + 2 + b[k + 2] > Len(b) THEN << <<-1, <<>> >> >>
    ELSE << <<b[k + 1], SubSeq(b, k + 3, k + 2 + b[k + 2])>> >>
         \o RegionItems(b, k + 2 + b[k + 2])

\* The present options in catalog order, each with its packed payload.
ExpectedItems(options) ==
    LET present == SelectSeq(DHCP_PACKET_OPTIONS,
                             LAMBDA o : Present(options, o.number))
    IN [i \in 1..Len(present) |->
           <<present[i].number, pack(present[i].kind, options[present[i].number]).v>>]

RECURSIVE ItemBytes(_, _)
\* The bytes the items from the i-th on take: 2 + payload each.
ItemBytes(items, i) ==
    IF i > Len(items) THEN 0 ELSE 2 + Len(items[i][2]) + ItemBytes(items, i + 1)

\* The 0-based offset of the tag byte of the item with this tag; -1 if none.
RECURSIVE TagOffset(_, _, _)
TagOffset(items, number, i) ==
    IF i > Len(items) THEN -1
    ELSE IF items[i][1] = number
         THEN OPTIONS_START_OFFSET + ItemBytes(SubSeq(items, 1, i - 1), 1)
         ELSE TagOffset(items, number, i + 1)

\* All thirteen fields hold a value and the magic cookie is 0x63825363.
Valid(fields) ==
    /\ \A name \in FieldNames : name \in DOMAIN fields /\ fields[name] # NoneV
    /\ fields["magic_cookie"] = PyInt(25474, 21347)

\* Every value packs: each field per its kind, and each present option per its
\* kind into a payload a one-byte length can announce.
Packable(fields, options) ==
    /\ \A i \in 1..Len(DHCP_PACKET_FIELDS) :
          pack(DHCP_PACKET_FIELDS[i].kind, fields[DHCP_PACKET_FIELDS[i].name]).ok
    /\ \A i \in 1..Len(DHCP_PACKET_OPTIONS) :
          LET o == DHCP_PACKET_OPTIONS[i] IN
          Present(options, o.number) =>
              /\ pack(o.kind, options[o.number]).ok
              /\ Len(pack(o.kind, options[o.number]).v) <= 255

----------------------------------------------------------------------------
\* C1 (as stated): decoding the encoding of a valid packet whose hardware
\* address is at most 16 bytes long gives back every field value and every
\* option value exactly as it was set.
C1_RoundTripIdentity ==
    (Intact /\ Len(_fields["chaddr"].v) <= 16) =>
        /\ rx.status = "ok"
        /\ \A name \in FieldNames :
              get_field(rx.fields, name) = get_field(_fields, name)
        /\ \A number \in OptionNumbers :
              get_option(rx.options, number) = get_option(_options, number)

\* C1 (amended): decoding the encoding of a valid packet gives back every
\* integer field, raw option, integer option and byte-list option exactly as
\* set, every address (in fields, options and address lists) as the four-part
\* text of the same address, and the hardware address right-padded with zero
\* bytes to 16 bytes (cut to 16 if longer); the decoded packet holds exactly
\* the options that held a value.
C1_RoundTripPadded ==
    Intact =>
        /\ rx.status = "ok"
        /\ DOMAIN rx.fields = FieldNames
        /\ \A name \in FieldsOfKind("B") \cup FieldsOfKind("H") \cup FieldsOfKind("I") :
              rx.fields[name] = _fields[name]
        /\ \A name \in FieldsOfKind("ip") :
              SameAddress(_fields[name].v, rx.fields[name].v)
        /\ rx.fields["chaddr"] = Str(PadOrCut16(_fields["chaddr"].v))
        /\ DOMAIN rx.options = {n \in OptionNumbers : Present(_options, n)}
        /\ \A n \in DOMAIN rx.options :
              CASE n \in OptionsOfKind("ip") ->
                      SameAddress(_options[n].v, rx.options[n].v)
                [] n \in OptionsOfKind("iplist") ->
                      /\ Len(rx.options[n].v) = Len(_options[n].v)
                      /\ \A i \in 1..Len(_options[n].v) :
                            SameAddress(_options[n].v[i], rx.options[n].v[i])
                [] OTHER -> rx.options[n] = _options[n]

\* C1 witness: a packet with a 12-byte hardware address and two more options
\* than its message type went through to_binary_string and the decoder.
C1_Witness ==
    /\ Intact
    /\ Len(_fields["chaddr"].v) = 12
    /\ Cardinality(DOMAIN rx.options) >= 3

----------------------------------------------------------------------------
----------------------------------------------------------------------------
\* C3: an encoded packet is at least 300 bytes long; its length is 300, or the
\* 240 header bytes plus every present option in full plus the end marker when
\* that is more, and then every present option is in the output in full.
C3_MinimumNotCap ==
    (op = "to_binary_string" /\ ret.r = "bytes") =>
        LET items == ExpectedItems(_options) IN
        /\ Len(ret.b) >= 300
        /\ Len(ret.b) = Max(300, 240 + ItemBytes(items, 1) + 1)
        /\ RegionItems(ret.b, 240) = items

\* C3 witness: to_binary_string returned more than 300 bytes.
C3_Witness ==
    /\ op = "to_binary_string"
    /\ ret.r = "bytes"
    /\ Len(ret.b) > 300
    /\ 240 + ItemBytes(ExpectedItems(_options), 1) + 1 > 300

----------------------------------------------------------------------------
----------------------------------------------------------------------------
\* C5: the options region holds each present option once, as tag, length and
\* payload, in the order of DHCP_PACKET_OPTIONS, whatever the order of the
\* set_option calls; the end marker follows the last of them, so an option
\* without a value takes no byte.
C5_CatalogOrder ==
    (op = "to_binary_string" /\ ret.r = "bytes") =>
        LET items == RegionItems(ret.b, OPTIONS_START_OFFSET)
            present == SelectSeq(DHCP_PACKET_OPTIONS,
                                 LAMBDA o : Present(_options, o.number))
        IN /\ Len(items) = Len(present)
           /\ \A i \in 1..Len(items) :
                 /\ items[i][1] = present[i].number
                 /\ items[i][2] = pack(present[i].kind, _options[present[i].number]).v
           /\ ret.b[OPTIONS_START_OFFSET + ItemBytes(items, 1) + 1] = OPTION_END

\* The catalog position of an option number.
CatalogIndex(number) ==
    CHOOSE i \in 1..Len(DHCP_PACKET_OPTIONS) : DHCP_PACKET_OPTIONS[i].number = number

\* C5 witness: a packet whose options were set against the catalog order was
\* encoded.
C5_Witness ==
    /\ op = "to_binary_string"
    /\ ret.r = "bytes"
    /\ \E i, j \in 1..Len(setOrder) :
          /\ i < j
          /\ Present(_options, setOrder[i]) /\ Present(_options, setOrder[j])
          /\ CatalogIndex(setOrder[i]) > CatalogIndex(setOrder[j])

----------------------------------------------------------------------------
\* C6 (as stated): with subnet_mask (1) and routers (3) both set, the tag byte
\* of subnet_mask is at a lower offset of the output than that of routers.
C6_SubnetBeforeRouters ==
    (op = "to_binary_string" /\ ret.r = "bytes"
        /\ Present(_options, 1) /\ Present(_options, 3)) =>
        LET items == RegionItems(ret.b, OPTIONS_START_OFFSET)
        IN TagOffset(items, 1, 1) < TagOffset(items, 3, 1)

\* C6 (amended): with both set, in either order of the set_option calls, the
\* tag byte of routers (3) is at a lower offset than that of subnet_mask (1).
C6_RoutersBeforeSubnet ==
    (op = "to_binary_string" /\ ret.r = "bytes"
        /\ Present(_options, 1) /\ Present(_options, 3)) =>
        LET items == RegionItems(ret.b, OPTIONS_START_OFFSET)
            routers == TagOffset(items, 3, 1)
            subnet == TagOffset(items, 1, 1)
        IN /\ routers >= OPTIONS_START_OFFSET
           /\ routers < subnet
           /\ ret.b[routers + 1] = 3
           /\ ret.b[subnet + 1] = 1

\* C6 witness: subnet_mask was set first, routers second, and the packet was
\* encoded.
C6_Witness ==
    /\ op = "to_binary_string"
    /\ ret.r = "bytes"
    /\ Present(_options, 1) /\ Present(_options, 3)
    /\ \E i, j \in 1..Len(setOrder) : i < j /\ setOrder[i] = 1 /\ setOrder[j] = 3

----------------------------------------------------------------------------
\* C7 (as stated): the decoding constructor returns a packet, without raising,
\* for every buffer of 241 bytes or more.
C7_DecodeNeverRaises ==
    (op = "decode" /\ Len(wire) >= 241) => rx.status = "ok"

----------------------------------------------------------------------------
----------------------------------------------------------------------------
\* A piece that is a whole item: a pad or end byte, or tag, length and as many
\* payload bytes as the length says.
Complete(p) ==
    \/ Len(p) = 1 /\ p[1] \in {0, 255}
    \/ Len(p) >= 2 /\ p[1] \notin {0, 255} /\ Len(p) = 2 + p[2]

\* A whole option whose tag is in no catalog entry.
UnknownOption(p) == Complete(p) /\ Len(p) >= 2 /\ p[1] \notin OptionNumbers

RECURSIVE Concat(_, _)
\* The pieces from the i-th on, one after the other.
Concat(ps, i) == IF i > Len(ps) THEN <<>> ELSE ps[i] \o Concat(ps, i + 1)

Without(ps, i) == SubSeq(ps, 1, i - 1) \o SubSeq(ps, i + 1, Len(ps))

\* C9: a whole option with an unknown tag, in tag position, is skipped with its
\* 2 + length bytes: the decoder raises or not, and stores the options it
\* stores, exactly as on the buffer without that option; nothing is stored for
\* the unknown tag; and is_valid is what the header's magic cookie makes it.
C9_UnknownOptionSkipped ==
    (op = "decode" /\ Len(wire) >= 241) =>
        \A i \in 1..Len(parts) :
            (UnknownOption(parts[i]) /\ \A j \in 1..(i - 1) : Complete(parts[j])) =>
                LET other == DhcpPacket(SubSeq(wire, 1, 240)
                                        \o Concat(Without(parts, i), 1))
                IN /\ rx.status = other.status
                   /\ rx.options = other.options
                   /\ parts[i][1] \notin DOMAIN rx.options
                   /\ (\A j \in 1..Len(parts) :
                          Complete(parts[j]) /\ parts[j] # <<53, 2, 1, 1>>)
                        => rx.status = "ok"
                   /\ rx.status = "ok" =>
                        (is_valid(rx.fields)
                            = (SubSeq(wire, 237, 240) = <<99, 130, 83, 99>>))

\* C9 witness: an option with tag 99 between two known options was decoded,
\* and both known options are in the packet.
C9_Witness ==
    /\ op = "decode"
    /\ rx.status = "ok"
    /\ Len(parts) = 3
    /\ parts[1] = <<53, 1, 1>>
    /\ parts[2] = <<99, 2, 7, 7>>
    /\ parts[3] = <<1, 4, 255, 255, 255, 0>>
    /\ DOMAIN rx.options = {1, 53}
    /\ is_valid(rx.fields)

----------------------------------------------------------------------------
\* C10 (as stated): message_type is the stored value when the option holds
\* one of 1..8, and -1 when the option is absent or holds any other value.
C10_UnknownOutsideRange ==
    \A options \in {_options} \cup (IF rx.status = "ok" THEN {rx.options} ELSE {}) :
        LET stored == Get(options, 53)
        IN (53 \in DOMAIN options => stored.t = "int") =>
              IF stored.t = "int" /\ stored.hi = 0 /\ stored.lo \in 1..8
              THEN message_type(options) = stored
              ELSE message_type(options) = PyInt(-1, 65535)

\* C10 (amended): message_type is the value stored for option 53 whenever the
\* option dictionary has an entry for it, whatever that value is, and -1 only
\* when it has none; a decoded packet reports the value that was encoded.
C10_StoredOrUnknown ==
    /\ 53 \notin DOMAIN _options => message_type(_options) = PyInt(-1, 65535)
    /\ 53 \in DOMAIN _options => message_type(_options) = _options[53]
    /\ (rx.status = "ok" /\ 53 \notin DOMAIN rx.options)
          => message_type(rx.options) = PyInt(-1, 65535)
    /\ Intact =>
          message_type(rx.options) =
              IF Present(_options, 53) THEN _options[53] ELSE PyInt(-1, 65535)

\* C10 witness: message type 9 was set, encoded and decoded, and the decoded
\* packet reports 9.
C10_Witness ==
    /\ Intact
    /\ Get(_options, 53) = Num(9)
    /\ message_type(_options) = Num(9)
    /\ message_type(rx.options) = Num(9)

----------------------------------------------------------------------------
\* C11: in every output of to_binary_string, bytes [4, 8) are the big-endian
\* encoding of the transaction id that set_field stored: the most significant
\* byte at offset 4, the least significant at offset 7.
C11_XidBigEndian ==
    (op = "to_binary_string" /\ ret.r = "bytes") =>
        LET X == _fields["xid"] IN
        /\ \A k \in 5..8 : ret.b[k] \in 0..255
        /\ ret.b[5] * 256 + ret.b[6] = X.hi
        /\ ret.b[7] * 256 + ret.b[8] = X.lo

\* C11 witness: set_field stored the transaction id 0x12345678 and the output
\* has 0x12 0x34 0x56 0x78 at offsets 4 to 7.
C11_Witness ==
    /\ op = "to_binary_string"
    /\ ret.r = "bytes"
    /\ <<"set_field", "xid">> \in touched
    /\ transaction_id(_fields) = PyInt(4660, 22136)
    /\ SubSeq(ret.b, 5, 8) = <<18, 52, 86, 120>>

----------------------------------------------------------------------------
\* The packet as a factory returns it: all thirteen fields hold a value,
\* is_valid is true, and op, the message type, yiaddr and siaddr are the given
\* ones.
Built(op_value, type, yiaddr, siaddr) ==
    /\ DOMAIN _fields = FieldNames
    /\ \A name \in FieldNames : get_field(_fields, name) # NoneV
    /\ is_valid(_fields)
    /\ message_type(_options) = PyInt(0, type)
    /\ get_field(_fields, "op") = PyInt(0, op_value)
    /\ get_field(_fields, "yiaddr") = yiaddr
    /\ get_field(_fields, "siaddr") = siaddr

\* C12: each factory returns a packet with all thirteen fields set and
\* is_valid true; the message type is 1, 2, 3, 5 for discovery, offer, request,
\* acknowledgement; op is 1 for discovery and request and 2 for offer and
\* acknowledgement; yiaddr and siaddr are the caller's offered or granted
\* address and server address for offer and acknowledgement, and 0.0.0.0 for
\* discovery and request.
C12_FactoriesBuildValid ==
    /\ op = "create_discovery_packet" =>
          Built(1, 1, Ip(<<0, 0, 0, 0>>), Ip(<<0, 0, 0, 0>>))
    /\ op = "create_offer_packet" =>
          Built(2, 2, args.offer_ip, args.server_ip)
    /\ op = "create_request_packet" =>
          Built(1, 3, Ip(<<0, 0, 0, 0>>), Ip(<<0, 0, 0, 0>>))
    /\ op = "create_acknowledgement_packet" =>
          Built(2, 5, args.granted_ip, args.server_ip)

\* C12 witness: create_acknowledgement_packet returned a packet for the
\* server address 10.0.0.254 and the granted address 192.168.1.10.
C12_Witness ==
    /\ op = "create_acknowledgement_packet"
    /\ args.server_ip = Ip(<<10, 0, 0, 254>>)
    /\ get_field(_fields, "siaddr") = Ip(<<10, 0, 0, 254>>)
    /\ get_field(_fields, "yiaddr") = args.granted_ip
    /\ message_type(_options) = PyInt(0, 5)
    /\ is_valid(_fields)

----------------------------------------------------------------------------
\* A packet built by create_discovery_packet from a 6-byte hardware address,
\* on which the transaction id and nothing else was set afterwards, to a
\* 32-bit value.
DiscoveryWithXid ==
    /\ args.call = "create_discovery_packet"
    /\ Len(args.hwmac_addr.v) = 6
    /\ touched = {<<"set_field", "xid">>}
    /\ transaction_id(_fields).t = "int"
    /\ transaction_id(_fields).hi \in 0..65535

\* C13: such a packet encodes to a byte string, and decoding that byte string
\* gives a packet whose transaction_id is the value set, whose message_type
\* is 1 and whose is_valid is true.
C13_DiscoveryRoundTrip ==
    DiscoveryWithXid =>
        /\ op = "to_binary_string" => ret.r = "bytes"
        /\ Intact =>
              /\ rx.status = "ok"
              /\ transaction_id(rx.fields) = transaction_id(_fields)
              /\ message_type(rx.options) = PyInt(0, 1)
              /\ is_valid(rx.fields)

\* C13 witness: the discovery packet for 00:11:22:33:44:55 was given the
\* transaction id 0x12345678, encoded and decoded.
C13_Witness ==
    /\ DiscoveryWithXid
    /\ Intact
    /\ args.hwmac_addr = Str(<<0, 17, 34, 51, 68, 85>>)
    /\ transaction_id(rx.fields) = PyInt(4660, 22136)
    /\ transaction_id(_fields) = PyInt(4660, 22136)

----------------------------------------------------------------------------
\* A dotted address written in four parts, each 0..255.
Dotted(p) == Len(p) = 4 /\ \A i \in 1..4 : p[i] \in 0..255

\* A value of an option's kind: an integer of the width's range, a four-part
\* dotted address, a list of such addresses, a byte string, a list of byte
\* values; in each case with a payload of at most 255 bytes.
OfKind(kind, value) ==
    CASE kind = "B" -> value.t = "int" /\ value.hi = 0 /\ value.lo \in 0..255
      [] kind = "H" -> value.t = "int" /\ value.hi = 0 /\ value.lo \in 0..65535
      [] kind = "I" -> value.t = "int" /\ value.hi \in 0..65535
                          /\ value.lo \in 0..65535
      [] kind = "ip" -> value.t = "ip" /\ Dotted(value.v)
      [] kind = "iplist" ->
            /\ value.t = "iplist"
            /\ Len(value.v) <= 63
            /\ \A i \in 1..Len(value.v) : Dotted(value.v[i])
      [] kind = "raw" -> value.t = "str" /\ Len(value.v) <= 255
      [] OTHER ->
            /\ value.t = "bytelist"
            /\ Len(value.v) <= 255
            /\ \A i \in 1..Len(value.v) : value.v[i] \in 0..255

\* A packet built by create_offer_packet on which options other than the
\* message type, and nothing else, were set afterwards, each to a value of its
\* kind.
OfferWithOptions ==
    /\ args.call = "create_offer_packet"
    /\ touched # {}
    /\ \A t \in touched :
          /\ t[1] = "set_option"
          /\ t[2] # 53
          /\ OfKind(get_dhcp_option_by_number(t[2]).kind, get_option(_options, t[2]))

\* C14: such a packet encodes to a byte string, and the packet decoded from
\* it gives, for every option that was set, the value it was set to, and the
\* message type 2.
C14_OptionRoundTrip ==
    OfferWithOptions =>
        /\ op = "to_binary_string" => ret.r = "bytes"
        /\ Intact =>
              /\ rx.status = "ok"
              /\ \A t \in touched :
                    get_option(rx.options, t[2]) = get_option(_options, t[2])
              /\ message_type(rx.options) = PyInt(0, 2)

\* C14 witness: an offer with subnet_mask 255.255.255.0 and two name servers
\* was encoded and decoded.
C14_Witness ==
    /\ OfferWithOptions
    /\ Intact
    /\ touched = {<<"set_option", 1>>, <<"set_option", 5>>}
    /\ get_option(rx.options, 1) = Ip(<<255, 255, 255, 0>>)
    /\ get_option(rx.options, 5) = IpList(<< <<8, 8, 8, 8>>, <<8, 8, 4, 4>> >>)
    /\ message_type(rx.options) = PyInt(0, 2)

----------------------------------------------------------------------------
\* The numbers of the catalog as the documentation lists them.
CatalogNumbers == (1..18) \cup (50..61) \cup {66, 67}

\* C17: for every n in 0..255, get_dhcp_option_by_number(n) returns the one
\* catalog option whose number is n when n is in 1..18, 50..61, 66, 67, and
\* None, without raising, for every other n, the pad tag 0 and the end tag 255
\* among them.
C17_LookupByNumber ==
    queried \in 0..255 =>
        IF queried \in CatalogNumbers
        THEN /\ found.number = queried
             /\ Cardinality({i \in 1..Len(DHCP_PACKET_OPTIONS) :
                                DHCP_PACKET_OPTIONS[i].number = queried}) = 1
             /\ \E i \in 1..Len(DHCP_PACKET_OPTIONS) : found = DHCP_PACKET_OPTIONS[i]
        ELSE found = NoOption

\* C17 witness: the lookup of the end tag 255 returned None.
C17_Witness ==
    /\ queried = 255
    /\ found = NoOption
    /\ found.kind = "None"

----------------------------------------------------------------------------
\* The last call repeats the call before it: the same operation on the same
\* instance with the same arguments.
Repeated ==
    /\ prev.what = call.what
    /\ prev.on = call.on
    /\ prev.args = call.args
    /\ inst = before.inst

----------------------------------------------------------------------------
\* What a caller can observe of the instance bound to a name: its field and
\* option values, its is_valid and its to_binary_string.
View(h, i, n) ==
    [fields |-> FieldsOf(h, i, n),
     options |-> OptionsOf(h, i, n),
     is_valid |-> is_valid(FieldsOf(h, i, n)),
     to_binary_string |-> to_binary_string(FieldsOf(h, i, n), OptionsOf(h, i, n))]

\* C16: a call on one name (a construction, empty, by a factory or by
\* decoding, set_field, set_option, is_valid, to_binary_string) leaves the
\* instance bound to the other name the same instance, with every field value,
\* option value, is_valid and to_binary_string result as before the call; two
\* instances never hold the same dictionary; and DHCP_PACKET_FIELDS and
\* DHCP_PACKET_OPTIONS stay as the import left them.
C16_InstancesIndependent ==
    /\ \A n \in Names :
          (call # NoCall /\ n # call.on /\ before.inst[n] # Unbound) =>
              /\ inst[n] = before.inst[n]
              /\ View(heap, inst, n) = View(before.heap, before.inst, n)
    /\ (inst["p"] # Unbound /\ inst["q"] # Unbound) =>
          {inst["p"].f, inst["p"].o} \cap {inst["q"].f, inst["q"].o} = {}
    /\ globals = Catalogs

\* C16 witness: with an offer bound to q, p was built and then set_field
\* changed p's transaction id; q still has the transaction id of the offer.
C16_Witness ==
    /\ call.what = "set_field"
    /\ call.on = "p"
    /\ call.args = <<"xid", PyInt(4660, 22136)>>
    /\ inst["q"] # Unbound
    /\ transaction_id(FieldsOf(heap, inst, "p")) = PyInt(4660, 22136)
    /\ transaction_id(FieldsOf(heap, inst, "q")) = PyInt(57005, 48879)
    /\ is_valid(FieldsOf(heap, inst, "q"))

----------------------------------------------------------------------------
\* The payload bytes of a piece that is a whole option.
Payload(p) == SubSeq(p, 3, Len(p))

\* A whole item whose payload, for a tag of the catalog, unpacks.
WellFormed(p) ==
    /\ Complete(p)
    /\ (Len(p) >= 2 /\ p[1] \in OptionNumbers) =>
          unpack(get_dhcp_option_by_number(p[1]).kind, Payload(p)).ok

\* The pieces ahead of the first end marker: the ones the loop reads.
RECURSIVE Live(_, _)
Live(ps, i) ==
    IF i > Len(ps) \/ ps[i] = <<255>> THEN <<>>
    ELSE <<ps[i]>> \o Live(ps, i + 1)

\* A buffer of a whole header and pieces that are well-formed up to the first
\* end marker was decoded.
DecodedWellFormed ==
    /\ op = "decode"
    /\ Len(wire) >= 241
    /\ wire = SubSeq(wire, 1, 240) \o Concat(parts, 1)
    /\ \A i \in 1..Len(Live(parts, 1)) : WellFormed(Live(parts, 1)[i])

\* C18: when a known tag is in the options region more than once ahead of the
\* end marker, the decoder does not raise and the decoded packet holds for it
\* the value unpacked from its last occurrence in the buffer.
C18_LastOccurrenceWins ==
    DecodedWellFormed =>
        LET live == Live(parts, 1) IN
        /\ rx.status = "ok"
        /\ \A i \in 1..Len(live) :
              (/\ Len(live[i]) >= 2
               /\ live[i][1] \in OptionNumbers
               /\ \A j \in (i + 1)..Len(live) : live[j][1] # live[i][1]) =>
                  /\ live[i][1] \in DOMAIN rx.options
                  /\ rx.options[live[i][1]] =
                        unpack(get_dhcp_option_by_number(live[i][1]).kind,
                               Payload(live[i])).v

\* C18 witness: message type 1, then message type 5, then the end marker; the
\* decoded packet holds 5.
C18_Witness ==
    /\ op = "decode"
    /\ parts = << <<53, 1, 1>>, <<53, 1, 5>>, <<255>> >>
    /\ rx.status = "ok"
    /\ get_option(rx.options, 53) = PyInt(0, 5)

----------------------------------------------------------------------------
\* The pieces that are not pad bytes.
NoPads(ps) == SelectSeq(ps, LAMBDA p : p # <<0>>)

\* C19: the scan starts at offset 240 and stops at the first 255 in tag
\* position or at the end of the buffer: the packet holds exactly the known
\* tags ahead of that end marker, none of a later piece; a 255 inside a
\* payload does not stop it; and a 0 in tag position takes one byte and stores
\* nothing, so the result is that of the same buffer without its pad bytes and
\* without what follows the end marker.
C19_ScanStopsAtEndMarker ==
    DecodedWellFormed =>
        LET live == Live(parts, 1)
            known == {live[i][1] : i \in {j \in 1..Len(live) :
                                             live[j][1] \in OptionNumbers}}
        IN /\ rx.status = "ok"
           /\ DOMAIN rx.options = known
           /\ rx = DhcpPacket(SubSeq(wire, 1, 240) \o Concat(NoPads(live), 1)
                                \o <<255>>)
           /\ Len(live) < Len(parts) =>
                 rx = DhcpPacket(SubSeq(wire, 1, 240) \o Concat(live, 1) \o <<255>>)

\* C19 witness: host_name with the payload byte 255, then the end marker, then
\* a message type; the decoded packet holds host_name alone.
C19_Witness ==
    /\ op = "decode"
    /\ parts = << <<12, 1, 255>>, <<255>>, <<53, 1, 1>> >>
    /\ rx.status = "ok"
    /\ DOMAIN rx.options = {12}
    /\ rx.options[12] = Str(<<255>>)

----------------------------------------------------------------------------
\* The bytes a field's value takes on the wire: an integer big-endian in the
\* field's width, an address as its four bytes, the hardware address
\* right-padded with zero bytes to 16 bytes or cut to 16.
WireBytes(kind, value) ==
    CASE kind = "B" -> <<value.lo>>
      [] kind = "H" -> <<value.lo \div 256, value.lo % 256>>
      [] kind = "I" -> <<value.hi \div 256, value.hi % 256,
                        value.lo \div 256, value.lo % 256>>
      [] kind = "ip" -> inet_aton_parts(value.v).v
      [] OTHER -> PadOrCut16(value.v)

\* The offsets and sizes of the thirteen fields as the documentation lists
\* them.
Layout ==
    << <<0, 1>>, <<1, 1>>, <<2, 1>>, <<3, 1>>, <<4, 4>>, <<8, 2>>, <<10, 2>>,
       <<12, 4>>, <<16, 4>>, <<20, 4>>, <<24, 4>>, <<28, 16>>, <<236, 4>> >>

\* C20: in every output of to_binary_string the i-th field's bytes are at
\* [offset, offset + size) of the layout, whatever the length of the hardware
\* address that was set; bytes [44, 236) are zero; bytes [236, 240) are
\* 0x63 0x82 0x53 0x63; and offset 240 holds the tag of the first option
\* present, or the end marker when there is none.
C20_FieldPlacement ==
    (op = "to_binary_string" /\ ret.r = "bytes") =>
        LET present == SelectSeq(DHCP_PACKET_OPTIONS,
                                 LAMBDA o : Present(_options, o.number))
        IN /\ Len(DHCP_PACKET_FIELDS) = Len(Layout)
           /\ \A i \in 1..Len(Layout) :
                 LET field == DHCP_PACKET_FIELDS[i] IN
                 /\ field.offset = Layout[i][1]
                 /\ field.size = Layout[i][2]
                 /\ SubSeq(ret.b, Layout[i][1] + 1, Layout[i][1] + Layout[i][2])
                       = WireBytes(field.kind, _fields[field.name])
           /\ \A k \in 44..235 : ret.b[k + 1] = 0
           /\ SubSeq(ret.b, 237, 240) = <<99, 130, 83, 99>>
           /\ ret.b[241] = IF present = <<>> THEN 255 ELSE present[1].number

\* C20 witness: an offer built with an 18-byte hardware address was encoded;
\* its first 16 bytes are at [28, 44) and the magic cookie at [236, 240).
C20_Witness ==
    /\ op = "to_binary_string"
    /\ ret.r = "bytes"
    /\ Len(_fields["chaddr"].v) = 18
    /\ SubSeq(ret.b, 29, 44) = SubSeq(_fields["chaddr"].v, 1, 16)
    /\ SubSeq(ret.b, 237, 240) = <<99, 130, 83, 99>>
    /\ ret.b[241] = 53

----------------------------------------------------------------------------
\* C21: in every output of to_binary_string the byte right after the last
\* emitted option (offset 240 when no option is present) is the end marker
\* 255; no option tag ahead of it is 255, and every byte after it is the pad
\* value 0, so it is the one end marker in tag position; and the length is
\* max(300, 241 + the sum over the present options of 2 + payload length).
C21_EndMarkerThenPads ==
    (op = "to_binary_string" /\ ret.r = "bytes") =>
        LET items == RegionItems(ret.b, OPTIONS_START_OFFSET)
            end == OPTIONS_START_OFFSET + ItemBytes(ExpectedItems(_options), 1)
        IN /\ Len(items) = Len(ExpectedItems(_options))
           /\ \A i \in 1..Len(items) : items[i][1] \in 1..254
           /\ OPTIONS_START_OFFSET + ItemBytes(items, 1) = end
           /\ ret.b[end + 1] = 255
           /\ \A k \in (end + 2)..Len(ret.b) : ret.b[k] = 0
           /\ Len(ret.b) = Max(300, end + 1)
           /\ (\A n \in OptionNumbers : ~Present(_options, n)) => ret.b[241] = 255

\* C21 witness: a packet whose host_name payload holds a byte 255 was encoded
\* to 300 bytes; the end marker follows the options and pad bytes follow it.
C21_Witness ==
    /\ op = "to_binary_string"
    /\ ret.r = "bytes"
    /\ get_option(_options, 12) = Str(<<104, 255>>)
    /\ Len(ret.b) = 300
    /\ ret.b[300] = 0
    /\ \E k \in 241..299 : ret.b[k] = 255 /\ ret.b[k + 1] = 255

----------------------------------------------------------------------------
\* The width in bytes of an integer kind.
Width(kind) == CASE kind = "B" -> 1 [] kind = "H" -> 2 [] OTHER -> 4

IntKinds == {"B", "H", "I"}

\* An integer within 0 .. 2^(8*width) - 1.
InRange(width, value) ==
    /\ value.t = "int"
    /\ value.lo \in 0..65535
    /\ CASE width = 1 -> value.hi = 0 /\ value.lo <= 255
         [] width = 2 -> value.hi = 0
         [] OTHER -> value.hi \in 0..65535

\* The big-endian bytes of an integer in range.
BigEndian(width, value) ==
    CASE width = 1 -> <<value.lo>>
      [] width = 2 -> <<value.lo \div 256, value.lo % 256>>
      [] OTHER -> <<value.hi \div 256, value.hi % 256,
                    value.lo \div 256, value.lo % 256>>

\* An integer field, or a present integer option, holds an integer outside
\* the range of its width.
SomeIntegerOutOfRange ==
    \/ \E i \in 1..Len(DHCP_PACKET_FIELDS) :
          LET f == DHCP_PACKET_FIELDS[i] IN
          /\ f.kind \in IntKinds
          /\ _fields[f.name].t = "int"
          /\ ~InRange(Width(f.kind), _fields[f.name])
    \/ \E i \in 1..Len(DHCP_PACKET_OPTIONS) :
          LET o == DHCP_PACKET_OPTIONS[i] IN
          /\ o.kind \in IntKinds
          /\ Present(_options, o.number)
          /\ _options[o.number].t = "int"
          /\ ~InRange(Width(o.kind), _options[o.number])

\* C22: encoding a valid packet in which an integer field or option holds a
\* value outside 0 .. 2^w - 1 raises and returns nothing; and in every byte
\* string that is returned each integer field and each present integer option
\* is in range and stands big-endian in exactly its width.
C22_NoSilentWrapAround ==
    (op = "to_binary_string" /\ Valid(_fields)) =>
        /\ SomeIntegerOutOfRange => ret = RetRaised
        /\ ret.r = "bytes" =>
              LET items == RegionItems(ret.b, OPTIONS_START_OFFSET) IN
              /\ \A i \in 1..Len(DHCP_PACKET_FIELDS) :
                    LET f == DHCP_PACKET_FIELDS[i] IN
                    f.kind \in IntKinds =>
                        /\ InRange(Width(f.kind), _fields[f.name])
                        /\ SubSeq(ret.b, f.offset + 1, f.offset + f.size)
                              = BigEndian(Width(f.kind), _fields[f.name])
              /\ \A k \in 1..Len(items) :
                    LET o == get_dhcp_option_by_number(items[k][1]) IN
                    o.kind \in IntKinds =>
                        /\ InRange(Width(o.kind), _options[o.number])
                        /\ items[k][2] = BigEndian(Width(o.kind), _options[o.number])

\* C22 witness: to_binary_string raised on a valid packet whose secs field
\* holds 65536.
C22_Witness ==
    /\ op = "to_binary_string"
    /\ Valid(_fields)
    /\ get_field(_fields, "secs") = PyInt(1, 0)
    /\ ret = RetRaised

----------------------------------------------------------------------------
Factories ==
    {"create_discovery_packet", "create_offer_packet",
     "create_request_packet", "create_acknowledgement_packet"}

\* C23: right after create_discovery_packet the chaddr field holds the
\* caller's hardware address followed by zero bytes up to 12 bytes (exactly
\* 12 bytes for a shorter address, the address itself for one of 12 bytes or
\* more); right after each of the other three factories it holds the
\* caller's hardware address unchanged.
C23_DiscoveryPadsHwAddr ==
    (op \in Factories) =>
        LET H == args.hwmac_addr.v
            stored == get_field(_fields, "chaddr")
        IN IF op = "create_discovery_packet"
           THEN /\ stored.t = "str"
                /\ Len(stored.v) = Max(12, Len(H))
                /\ SubSeq(stored.v, 1, Len(H)) = H
                /\ \A k \in (Len(H) + 1)..Len(stored.v) : stored.v[k] = 0
                /\ Len(H) >= 12 => stored.v = H
           ELSE stored = args.hwmac_addr

\* C23 witness: create_discovery_packet was given 6 bytes and stored 12.
C23_Witness ==
    /\ op = "create_discovery_packet"
    /\ Len(args.hwmac_addr.v) = 6
    /\ Len(get_field(_fields, "chaddr").v) = 12
    /\ get_field(_fields, "chaddr").v[12] = 0

----------------------------------------------------------------------------
\* Two packets hold the same value in every field but those named.
SameFieldsBut(p, q, names) ==
    \A n \in FieldNames \ names : get_field(p, n) = get_field(q, n)

\* The only option of the packet is the message type, with this value.
OnlyMessageType(options, type) ==
    /\ get_option(options, 53) = Num(type)
    /\ \A n \in OptionNumbers \ {53} : ~Present(options, n)

\* The discovery packet for the hardware address the request was built for.
DiscoveryFor(hwmac_addr) == create_discovery_packet(hwmac_addr, Xid_DEADBEEF)

\* The offer packet for the arguments the acknowledgement was built with.
OfferFor(a) ==
    create_offer_packet(a.transaction_id, a.hwmac_addr, a.granted_ip, a.server_ip)

\* The acknowledgement holds the field values of the offer for the same
\* arguments and differs from it only in the message type, 5 instead of 2.
AckMirrorsOffer ==
    (op = "create_acknowledgement_packet") =>
        /\ SameFieldsBut(_fields, OfferFor(args).fields, {})
        /\ OnlyMessageType(_options, 5)
        /\ OnlyMessageType(OfferFor(args).options, 2)

----------------------------------------------------------------------------
\* The loops of the decoding constructor and of to_binary_string, one turn
\* of a while loop per step.

\* How many pieces the options region of a buffer scanned turn by turn holds.
MaxLoopParts == 2

\* Faulty variant: a pad byte is skipped without moving the offset.
AfterTag_padStays(offset, data_type) ==
    IF data_type = OPTION_PAD THEN offset ELSE offset + 1

\* data_type = ord(byte_str[offset]); offset += 1
AfterTag(offset, data_type) == offset + 1

\* The buffers: the header followed by up to MaxLoopParts pieces.
LoopBuffers ==
    {WireHeader \o Concat([i \in DOMAIN ps |-> WireParts[ps[i]]], 1) :
        ps \in UNION {[1..n -> 1..Len(WireParts)] : n \in 0..MaxLoopParts}}

\* The packets to_binary_string is run on.
LoopPackets ==
    {create_offer_packet(Xid_DEADBEEF, Mac6, OfferIp, ServerIp),
     create_discovery_packet(Mac6, Xid_Max),
     create_request_packet(Xid_TooBig, Hw16),
     Packet(create_offer_packet(Xid_DEADBEEF, Hw18, OfferIp, ServerIp).fields,
            set_option(set_option(EmptyDict, 53, Num(2)), 60, Str(Bytes(255, 0)))),
     Packet(create_offer_packet(Xid_DEADBEEF, Mac6, OfferIp, ServerIp).fields,
            set_option(EmptyDict, 60, Str(Bytes(256, 0)))),
     Packet(set_field(EmptyDict, "op", Num(1)), EmptyDict)}

\* DhcpPacket(byte_str) up to the while loop.
DecodeEnter ==
    /\ pc = "idle"
    /\ \E b \in LoopBuffers :
          /\ cur_byte_str' = b
          /\ IF Len(b) < OPTIONS_START_OFFSET + 1
             THEN /\ pc' = "constructed"
                  /\ cur_packet' = Packet(EmptyDict, EmptyDict)
                  /\ cur_offset' = 0
             ELSE /\ pc' = "scan"
                  /\ cur_packet' = Packet(UnpackFields(b, 1, EmptyDict), EmptyDict)
                  /\ cur_offset' = OPTIONS_START_OFFSET
    /\ UNCHANGED <<cur_data, cur_field, nturns, single, lookup, pair>>

\* One turn of the constructor's while loop.
ScanTurn ==
    /\ pc = "scan"
    /\ Scanning(cur_byte_str, cur_offset)
    /\ nturns' = nturns + 1
    /\ LET data_type == cur_byte_str[cur_offset + 1]
           at_length == AfterTag(cur_offset, data_type)
       IN IF data_type = OPTION_PAD
          THEN /\ cur_offset' = at_length
               /\ UNCHANGED <<pc, cur_packet>>
          ELSE IF at_length >= Len(cur_byte_str)
          THEN /\ cur_offset' = at_length
               /\ pc' = "raised"          \* byte_str[offset]: IndexError
               /\ UNCHANGED cur_packet
          ELSE LET data_length == cur_byte_str[at_length + 1]
                   data == Slice(cur_byte_str, at_length + 1,
                                 at_length + 1 + data_length)
                   option == get_dhcp_option_by_number(data_type)
               IN /\ cur_offset' = AfterPayload(at_length + 1, data_length)
                  /\ IF option = NoOption
                     THEN UNCHANGED <<pc, cur_packet>>
                     ELSE LET option_value == unpack(option.kind, data)
                          IN IF ~option_value.ok
                             THEN pc' = "raised" /\ UNCHANGED cur_packet
                             ELSE /\ cur_packet' =
                                        Packet(cur_packet.fields,
                                               StoreOption(cur_packet.options,
                                                           option.number,
                                                           option_value.v))
                                  /\ UNCHANGED pc
    /\ UNCHANGED <<cur_byte_str, cur_data, cur_field, single, lookup, pair>>

\* The while condition is false: the constructor returns.
ScanExit ==
    /\ pc = "scan"
    /\ ~Scanning(cur_byte_str, cur_offset)
    /\ pc' = "constructed"
    /\ UNCHANGED <<cur_byte_str, cur_packet, cur_offset, cur_data, cur_field,
                   nturns, single, lookup, pair>>

\* to_binary_string up to the field loop.
EncodeEnter ==
    /\ pc = "idle"
    /\ \E packet \in LoopPackets :
          /\ cur_packet' = packet
          /\ IF ~is_valid(packet.fields)
             THEN pc' = "returned None" /\ cur_field' = 0
             ELSE pc' = "fields" /\ cur_field' = 1
    /\ cur_offset' = 0
    /\ cur_data' = <<>>
    /\ UNCHANGED <<cur_byte_str, nturns, single, lookup, pair>>

\* The field the field loop is at, and its packed value.
CurField == DHCP_PACKET_FIELDS[cur_field]
CurFieldData == pack(CurField.kind, cur_packet.fields[CurField.name])

\* A turn of the field loop begins: field_data = field.pack(...)
FieldTurn ==
    /\ pc = "fields"
    /\ pc' = IF CurFieldData.ok THEN "gap" ELSE "raised"
    /\ UNCHANGED <<cur_byte_str, cur_packet, cur_offset, cur_data, cur_field,
                   nturns, single, lookup, pair>>

\* One turn of `while offset < field.offset`.
GapTurn ==
    /\ pc = "gap"
    /\ cur_offset < CurField.offset
    /\ cur_data' = cur_data \o <<0>>
    /\ cur_offset' = cur_offset + 1
    /\ nturns' = nturns + 1
    /\ UNCHANGED <<pc, cur_byte_str, cur_packet, cur_field, single, lookup, pair>>

\* The gap is filled: the field is appended, and the next field is up.
GapExit ==
    /\ pc = "gap"
    /\ ~(cur_offset < CurField.offset)
    /\ cur_data' = cur_data \o CurFieldData.v
    /\ cur_offset' = cur_offset + CurField.size
    /\ cur_field' = cur_field + 1
    /\ pc' = IF cur_field = Len(DHCP_PACKET_FIELDS) THEN "options" ELSE "fields"
    /\ UNCHANGED <<cur_byte_str, cur_packet, nturns, single, lookup, pair>>

\* The option loop, which holds no while loop, and the end marker.
OptionsLoop ==
    /\ pc = "options"
    /\ LET acc == EmitOptions(cur_packet.options, 1, Acc(cur_data, cur_offset))
       IN IF ~acc.ok
          THEN pc' = "raised" /\ UNCHANGED <<cur_data, cur_offset>>
          ELSE /\ pc' = "tail"
               /\ cur_data' = acc.data \o <<OPTION_END>>
               /\ cur_offset' = acc.offset + 1
    /\ UNCHANGED <<cur_byte_str, cur_packet, cur_field, nturns, single, lookup, pair>>

\* One turn of `while offset < DHCP_MIN_PACKET_SIZE`.
TailTurn ==
    /\ pc = "tail"
    /\ cur_offset < DHCP_MIN_PACKET_SIZE
    /\ cur_data' = cur_data \o <<OPTION_PAD>>
    /\ cur_offset' = cur_offset + 1
    /\ nturns' = nturns + 1
    /\ UNCHANGED <<pc, cur_byte_str, cur_packet, cur_field, single, lookup, pair>>

\* The tail is filled: to_binary_string returns the joined data.
TailExit ==
    /\ pc = "tail"
    /\ ~(cur_offset < DHCP_MIN_PACKET_SIZE)
    /\ pc' = "returned"
    /\ UNCHANGED <<cur_byte_str, cur_packet, cur_offset, cur_data, cur_field,
                   nturns, single, lookup, pair>>

\* The steps of a call that has begun.
Running ==
    \/ ScanTurn
    \/ ScanExit
    \/ FieldTurn
    \/ GapTurn
    \/ GapExit
    \/ OptionsLoop
    \/ TailTurn
    \/ TailExit

NextLoop ==
    \/ DecodeEnter
    \/ EncodeEnter
    \/ Running

\* A call that has begun keeps running: nothing else is scheduled.
SpecLoop == Init /\ [][NextLoop]_vars /\ WF_vars(Running)

\* The call has ended: it returned, or it raised.
Ended == pc \in {"constructed", "raised", "returned", "returned None"}

\* The turn-by-turn run ends as the whole call does.
LoopAgrees ==
    /\ pc = "constructed" => Packet(cur_packet.fields, cur_packet.options) = DhcpPacket(cur_byte_str)
    /\ (pc = "raised" /\ cur_byte_str # <<>>) => DhcpPacket(cur_byte_str) = PacketRaised
    /\ pc = "returned" =>
          to_binary_string(cur_packet.fields, cur_packet.options) = RetBytes(cur_data)
    /\ pc = "returned None" =>
          to_binary_string(cur_packet.fields, cur_packet.options) = RetNone
    /\ (pc = "raised" /\ cur_byte_str = <<>>) =>
          to_binary_string(cur_packet.fields, cur_packet.options) = RetRaised

\* A turn of the constructor's while loop moves the offset forward: by 1 for
\* a pad byte, by at least 2 for any other tag whose length byte is there.
ScanAdvances ==
    (pc = "scan" /\ nturns' # nturns) =>
        LET data_type == cur_byte_str[cur_offset + 1] IN
        /\ cur_offset' > cur_offset
        /\ data_type = OPTION_PAD => cur_offset' = cur_offset + 1
        /\ (data_type # OPTION_PAD /\ cur_offset + 1 < Len(cur_byte_str)) =>
              /\ cur_offset' = cur_offset + 2 + cur_byte_str[cur_offset + 2]
              /\ cur_offset' >= cur_offset + 2

\* The while loops are bounded: the constructor's by the bytes after the
\* header, to_binary_string's two by 300 in total; and the constructor
\* returns with the offset at the buffer's end or beyond, or at an end marker.
LoopsBounded ==
    /\ (pc \in {"scan", "constructed", "raised"} /\ cur_byte_str # <<>>) =>
          /\ nturns <= Max(0, cur_offset - OPTIONS_START_OFFSET)
          /\ nturns <= Max(0, Len(cur_byte_str) - OPTIONS_START_OFFSET)
    /\ (pc = "constructed" /\ Len(cur_byte_str) > OPTIONS_START_OFFSET) =>
          \/ cur_offset >= Len(cur_byte_str)
          \/ cur_byte_str[cur_offset + 1] = OPTION_END
    /\ (pc \in {"fields", "gap", "options", "tail", "returned", "raised"}
           /\ cur_byte_str = <<>>) =>
          /\ nturns <= cur_offset
          /\ nturns <= DHCP_MIN_PACKET_SIZE

\* C25: decoding and encoding always terminate. Every turn of the decoder's
\* option loop strictly increases the offset (by 1 for a pad byte, by at
\* least 2 for any other tag, an option of length 0 included), the loop ends
\* with the offset at the buffer length or at an end marker, the encoder's
\* gap and tail padding loops take at most 300 turns in total, and every
\* call that has begun ends.
C25_LoopsTerminate ==
    /\ [][ScanAdvances]_vars
    /\ []LoopsBounded
    /\ (pc # "idle") ~> Ended

\* C25 witness: the decoder returned after two turns, one over a pad byte
\* (offset + 1) and one over an option of length 0 (offset + 2), with the
\* offset at the buffer's length.
C25_Witness ==
    /\ pc = "constructed"
    /\ nturns = 2
    /\ Len(cur_byte_str) = OPTIONS_START_OFFSET + 3
    /\ SubSeq(cur_byte_str, 241, 243) = <<0, 12, 0>>
    /\ cur_offset = Len(cur_byte_str)

----------------------------------------------------------------------------
\* The accessors on an instance of the heap, and the frame of every call.

\* Faulty variant: a read of a key the dictionary does not hold inserts it
\* with None, as d.setdefault(key) does.
AfterGet_setdefault(d, key) == IF key \in DOMAIN d THEN d ELSE Put(d, key, NoneV)

\* The dictionary after d.get(key): as it was.
AfterGet(d, key) == d

\* The reading calls: the accessor, the dictionary it reads, the key.
Reads ==
    { <<"message_type", "_options", 53>>,
      <<"transaction_id", "_fields", "xid">>,
      <<"client_hw_address", "_fields", "chaddr">>,
      <<"get_field", "_fields", "secs">>,
      <<"get_option", "_options", 12>> }

\* What the accessor returns.
ReadValue(what, fields, options, key) ==
    CASE what = "message_type" -> message_type(options)
      [] what = "transaction_id" -> transaction_id(fields)
      [] what = "client_hw_address" -> client_hw_address(fields)
      [] what = "get_field" -> get_field(fields, key)
      [] OTHER -> get_option(options, key)

\* n.message_type, n.transaction_id, n.client_hw_address, n.get_field(key) or
\* n.get_option(key).
PairRead ==
    \E n \in Names, r \in Reads :
        /\ inst[n] # Unbound
        /\ LET addr == IF r[2] = "_fields" THEN inst[n].f ELSE inst[n].o IN
           heap' = Store(heap, addr, AfterGet(heap[addr], r[3]))
        /\ result' = [kind |-> "value", valid |-> FALSE, ret |-> NotCalled,
                      value |-> ReadValue(r[1], FieldsOf(heap, inst, n),
                                          OptionsOf(heap, inst, n), r[3])]
        /\ Called(n, r[1], <<r[3]>>)
        /\ UNCHANGED inst

NextFrame ==
    \/ PairConstruct
    \/ PairSetField
    \/ PairSetOption
    \/ PairRead
    \/ PairIsValid
    \/ PairToBinaryString

SpecFrame == Init /\ [][NextFrame]_vars

\* The calls that only read.
ReadingCalls ==
    {"to_binary_string", "is_valid", "message_type", "transaction_id",
     "client_hw_address", "get_field", "get_option"}

\* d2 is d1 but for the value at key, which is value.
OnlyKeyChanged(d1, d2, key, value) ==
    /\ DOMAIN d2 = DOMAIN d1 \cup {key}
    /\ d2[key] = value
    /\ \A k \in DOMAIN d1 \ {key} : d2[k] = d1[k]

\* C26: a packet changes only through its setters. to_binary_string (bytes or
\* None), is_valid, message_type, transaction_id, client_hw_address, get_field
\* and get_option leave every dictionary as it was, keys included (a read of
\* an unset key returns None, or -1 for message_type, and inserts nothing);
\* set_field changes the one field given and no option; set_option changes
\* the one option given and no field.
C26_OnlySettersChange ==
    /\ (call # NoCall /\ call.what \in ReadingCalls) =>
          /\ heap = before.heap
          /\ inst = before.inst
    /\ (call # NoCall /\ call.what \in {"get_field", "get_option"}
          /\ call.args[1] \notin
                DOMAIN (IF call.what = "get_field"
                        THEN FieldsOf(before.heap, before.inst, call.on)
                        ELSE OptionsOf(before.heap, before.inst, call.on))) =>
          /\ result.value = NoneV
          /\ call.args[1] \notin
                DOMAIN (IF call.what = "get_field"
                        THEN FieldsOf(heap, inst, call.on)
                        ELSE OptionsOf(heap, inst, call.on))
    /\ (call # NoCall /\ call.what = "set_field") =>
          /\ inst = before.inst
          /\ OnlyKeyChanged(FieldsOf(before.heap, before.inst, call.on),
                            FieldsOf(heap, inst, call.on),
                            call.args[1], call.args[2])
          /\ OptionsOf(heap, inst, call.on)
                = OptionsOf(before.heap, before.inst, call.on)
    /\ (call # NoCall /\ call.what = "set_option") =>
          /\ inst = before.inst
          /\ OnlyKeyChanged(OptionsOf(before.heap, before.inst, call.on),
                            OptionsOf(heap, inst, call.on),
                            call.args[1], call.args[2])
          /\ FieldsOf(heap, inst, call.on)
                = FieldsOf(before.heap, before.inst, call.on)

\* C26 witness: get_option of the host name on an offer, which holds none,
\* returned None and the offer holds none after the call.
C26_Witness ==
    /\ call # NoCall
    /\ call.what = "get_option"
    /\ call.args = <<12>>
    /\ result.value = NoneV
    /\ is_valid(FieldsOf(heap, inst, call.on))
    /\ DOMAIN OptionsOf(heap, inst, call.on) = {53}

----------------------------------------------------------------------------
\* No option of the scan has a length byte announcing more than remains.
NoShort == [tag |-> -1, length |-> 0, data |-> <<>>]

RECURSIVE ShortItem(_, _)
\* The option met by the scan from offset k whose length byte announces more
\* payload bytes than the buffer has left, with the bytes that are left.
ShortItem(b, k) ==
    IF k >= Len(b) \/ b[k + 1] = OPTION_END THEN NoShort
    ELSE IF b[k + 1] = OPTION_PAD THEN ShortItem(b, k + 1)
    ELSE IF k + 2 > Len(b) THEN NoShort
    ELSE IF k + 2 + b[k + 2] > Len(b)
         THEN [tag |-> b[k + 1], length |-> b[k + 2],
               data |-> SubSeq(b, k + 3, Len(b))]
         ELSE ShortItem(b, k + 2 + b[k + 2])

\* C27 (as stated): every option the decoder stores was unpacked from
\* exactly `length` payload bytes; when a length byte announces more bytes
\* than remain in the buffer, the decoder does not return a packet holding
\* the option unpacked from the shortened payload.
C27_NoShortenedPayload ==
    (op = "decode" /\ Len(wire) >= 241) =>
        LET short == ShortItem(wire, OPTIONS_START_OFFSET)
            option == get_dhcp_option_by_number(short.tag)
        IN (short # NoShort /\ option # NoOption) =>
              ~ /\ rx.status = "ok"
                /\ option.number \in DOMAIN rx.options
                /\ Len(short.data) < short.length
                /\ Ok(rx.options[option.number]) = unpack(option.kind, short.data)

----------------------------------------------------------------------------
\* The four bytes at offsets 236..239 are the magic cookie 0x63825363.
CookieOnWire(b) == Len(b) >= 240 /\ SubSeq(b, 237, 240) = <<99, 130, 83, 99>>

\* C28: the fields of a decoded packet are all or nothing. After
\* DhcpPacket(buffer) returns, the field dictionary is empty for a buffer
\* shorter than 241 bytes and holds a value for each of the 13 fields for a
\* buffer of 241 bytes or more; for such a buffer is_valid is true exactly
\* when bytes [236, 240) are 0x63825363, and a packet decoded with another
\* cookie has all fields, is not valid and to_binary_string returns None.
C28_FieldsAllOrNothing ==
    (op = "decode" /\ rx.status = "ok") =>
        /\ DOMAIN rx.fields = IF Len(wire) < 241 THEN {} ELSE FieldNames
        /\ \A n \in DOMAIN rx.fields : rx.fields[n] # NoneV
        /\ Len(wire) < 241 => ~is_valid(rx.fields)
        /\ Len(wire) >= 241 => (is_valid(rx.fields) <=> CookieOnWire(wire))
        /\ (Len(wire) >= 241 /\ ~CookieOnWire(wire)) =>
              to_binary_string(rx.fields, rx.options) = RetNone

\* C28 witness: a buffer of more than 241 bytes with a wrong cookie was
\* decoded: the packet has its 13 fields and an option, and is not valid.
C28_Witness ==
    /\ op = "decode"
    /\ rx.status = "ok"
    /\ Len(wire) > 241
    /\ ~CookieOnWire(wire)
    /\ DOMAIN rx.fields = FieldNames
    /\ get_field(rx.fields, "xid") = Xid_DEADBEEF
    /\ get_option(rx.options, 53) = Num(5)
    /\ ~is_valid(rx.fields)

----------------------------------------------------------------------------
\* C29: encoding is stable on the wire. For every valid packet whose
\* to_binary_string returned B, the packet decoded from B is valid and its
\* own to_binary_string returns exactly B, also when a decoded field value
\* differs from the one that was set (a hardware address set shorter than 16
\* bytes comes back padded to 16).
C29_EncodeDecodeEncode ==
    Intact =>
        /\ rx.status = "ok"
        /\ is_valid(rx.fields)
        /\ to_binary_string(rx.fields, rx.options) = RetBytes(ret.b)

\* C29 witness: a packet with a 6-byte hardware address and an option besides
\* its message type was encoded and decoded; the decoded hardware address is
\* not the one set, and the decoded packet encodes to the same bytes.
C29_Witness ==
    /\ Intact
    /\ Len(get_field(_fields, "chaddr").v) = 6
    /\ get_field(rx.fields, "chaddr") # get_field(_fields, "chaddr")
    /\ Cardinality(DOMAIN rx.options) >= 2
    /\ to_binary_string(rx.fields, rx.options) = ret

----------------------------------------------------------------------------
\* A present option of the packet packs to more than 255 bytes.
SomePayloadOver255 ==
    \E i \in 1..Len(DHCP_PACKET_OPTIONS) :
        LET o == DHCP_PACKET_OPTIONS[i] IN
        /\ Present(_options, o.number)
        /\ pack(o.kind, _options[o.number]).ok
        /\ Len(pack(o.kind, _options[o.number]).v) > 255

\* C30: in every byte string to_binary_string returns, each present option
\* stands as its tag, a length byte equal to the number of payload bytes that
\* follow, and those bytes (at most 255), one option after the other up to
\* the end marker; and encoding a valid packet with a present option that
\* packs to more than 255 bytes (a raw blob of 256 bytes, a list of 64
\* addresses) raises and returns nothing.
C30_LengthByteIsPayloadLength ==
    (op = "to_binary_string") =>
        /\ ret.r = "bytes" =>
              LET items == ExpectedItems(_options) IN
              /\ \A i \in 1..Len(items) :
                    LET at == OPTIONS_START_OFFSET
                                 + ItemBytes(SubSeq(items, 1, i - 1), 1)
                        payload == items[i][2]
                    IN /\ Len(payload) <= 255
                       /\ ret.b[at + 1] = items[i][1]
                       /\ ret.b[at + 2] = Len(payload)
                       /\ SubSeq(ret.b, at + 3, at + 2 + Len(payload)) = payload
              /\ ret.b[OPTIONS_START_OFFSET + ItemBytes(items, 1) + 1] = OPTION_END
              /\ ~SomePayloadOver255
        /\ (Valid(_fields) /\ SomePayloadOver255) => ret = RetRaised

\* C30 witness: to_binary_string raised on a valid packet whose routers
\* option holds 64 addresses, 256 bytes of payload.
C30_Witness ==
    /\ op = "to_binary_string"
    /\ Valid(_fields)
    /\ Present(_options, 3)
    /\ Len(get_option(_options, 3).v) = 64
    /\ IpListOption_pack(get_option(_options, 3)).ok
    /\ ret = RetRaised

====
